---- MODULE Spec2Model ----
(***************************************************************************)
(* A model of the BountyAgents swarm: the SwarmOrchestrator.hunt pipeline  *)
(* (src/src/swarm/orchestrator.ts) with its oracle calls in flight, the    *)
(* ExpertFactory (src/src/agents/expert-factory.ts), the DebateArena       *)
(* (orchestrator.ts) and ThePope (src/src/agents/synthesis/the-pope.ts).   *)
(*                                                                         *)
(* An oracle call is one Anthropic messages.create request; it is in       *)
(* flight from the moment an agent method is invoked until its promise     *)
(* settles.  Each action is one run-to-completion segment of the           *)
(* JavaScript event loop: the code from one settled promise up to the      *)
(* next await on the network.                                              *)
(***************************************************************************)
EXTENDS Integers, Sequences, FiniteSets, TLC

(***************************************************************************)
(* Bounds of the model.                                                    *)
(***************************************************************************)
MaxK == 2             \* maxConcurrentAgents ranges over 1..MaxK
MaxFindings == 2      \* findings returned by the analysis oracle over one run
MaxFaults == 1        \* oracle calls of one run that fail or return malformed output
MaxSpawnCalls == 2    \* calls of ExpertFactory.spawnExpert
MaxClears == 1        \* calls of ExpertFactory.clearExperts
MaxList == 17         \* findings in a list handed to the prioritisation

(***************************************************************************)
(* Program constants.                                                      *)
(***************************************************************************)
MAX_FINDINGS_TO_DEBATE == 15
BATCH_SIZE == 5

\* PipelineStage, in pipeline order.
PipelineStages ==
  << "reconnaissance", "expert-spawning", "parallel-analysis", "adversarial-debate",
     "synthesis", "exploit-forge", "verification", "submission" >>

\* Position of stage s in the pipeline (0 before hunt() is called).
StageIndex(s) ==
  IF \E i \in 1..Len(PipelineStages) : PipelineStages[i] = s
    THEN CHOOSE i \in 1..Len(PipelineStages) : PipelineStages[i] = s
    ELSE 0

\* The fallback experts of spawnExperts' catch block.
DefaultExperts == << "ReentrancyExpert", "AccessControlExpert", "LogicErrorExpert" >>

\* Names the expert-spawner oracle may recommend (one of them is also a default).
OracleNames == { "ReentrancyExpert", "OracleExpert" }

RedTeam == << "RedTeamAttacker_1", "RedTeamAttacker_2", "RedTeamAttacker_3" >>
BlueTeam == << "BlueTeamDefender_1", "BlueTeamDefender_2" >>
DevilsAdvocates == << "DevilsAdvocate_1", "DevilsAdvocate_2" >>
Smiths == << "ExploitSmith_direct", "ExploitSmith_flash-loan", "ExploitSmith_chained" >>
Verifiers == << "Verifier_1", "Verifier_2", "Verifier_3" >>

VARIABLES
  K,                  \* config.maxConcurrentAgents
  contracts,          \* number of entries of state.contracts
  pc,                 \* where hunt()'s own control flow is suspended
  currentStage,       \* state.currentStage
  logs,               \* state.logs
  spawnIdx,           \* contract spawnExperts is working on
  spawnedExperts,     \* state.spawnedExperts (names)
  agents,             \* keys of this.agents
  calls,              \* oracle calls in flight
  limitQueue,         \* p-limit: tasks enqueued and not started
  limitActive,        \* p-limit: activeCount
  tasks,              \* the analysis closures, one per entry of spawnedExperts
  findings,           \* state.findings
  debate,             \* the debate session and the position of its loops
  synthesis,          \* state.synthesis
  forge,              \* forgeExploits' loop position and collected approaches
  exploits,           \* state.exploits
  votes,              \* verify's collected votes of the exploit being verified
  verificationResults,\* state.verificationResults
  faults,             \* failed/malformed oracle answers so far
  history,            \* observations of the run used to state its properties
  factory,            \* the ExpertFactory and the spawnExpert calls in progress
  arena,              \* a DebateArena, its session, and the Pope's synthesis of it
  tribunal,           \* a VerificationTribunal and the verify() call in progress
  hunter,             \* the AutonomousHunter, its DashboardServer and the hunt loop
  shared,             \* one SwarmOrchestrator running two hunt() calls
  maxDebateRounds,    \* config.maxDebateRounds
  minted              \* the finding ids parallelAnalysis has generated

huntVars ==
  << K, contracts, pc, currentStage, logs, spawnIdx, spawnedExperts, agents, calls,
     limitQueue, limitActive, tasks, findings, debate, synthesis, forge, exploits,
     votes, verificationResults, faults, history >>

\* The components that hunt(), the ExpertFactory and the DebateArena never touch.
rest == << tribunal, hunter, shared, maxDebateRounds, minted >>

vars == << huntVars, factory, arena, rest >>

(***************************************************************************)
(* Helpers.                                                                *)
(***************************************************************************)
Min(a, b) == IF a <= b THEN a ELSE b

Range(s) == { s[i] : i \in 1..Len(s) }

RECURSIVE Flatten(_)
Flatten(ss) == IF ss = << >> THEN << >> ELSE Head(ss) \o Flatten(Tail(ss))

SeqsUpTo(S, n) == UNION { [1..m -> S] : m \in 0..n }

\* One entry of state.logs (timestamp and details left out).
LogEntry(stage, action) == [stage |-> stage, action |-> action]

\* One oracle call in flight: the stage that issued it, the agent whose method
\* was invoked, the task (closure) awaiting it, and the debate round (0 elsewhere).
Call(stage, agent, task, round) ==
  [stage |-> stage, agent |-> agent, task |-> task, round |-> round]

\* BaseAgent.analyzeStructured: rejects when the request fails ("transport") or
\* when no JSON can be parsed out of the answer ("garbage"); otherwise it
\* resolves with the parsed data, whatever its shape ("json", "badshape").
AnalyzeStructuredThrows(resp) == resp.kind \in { "transport", "garbage" }

\* BaseAgent.analyze: rejects only when the request fails.
AnalyzeThrows(resp) == resp.kind = "transport"

IsFault(resp) == resp.kind # "json"

(***************************************************************************)
(* executeStage and the catch block of hunt().                             *)
(***************************************************************************)
\* executeStage up to `await fn()`: the entries it appends.
StageStarted(stage) == << LogEntry(stage, "Stage started") >>

\* executeStage after fn() resolved.
StageCompleted(stage) == << LogEntry(stage, "Stage completed") >>

\* A catch that files the failure under the pipeline's first stage.
PipelineFailedAtStart(stage) == << LogEntry("reconnaissance", "Pipeline failed") >>

\* A catch that rethrows without writing to the log.
PipelineFailedSilently(stage) == << >>

\* hunt()'s catch: logs under state.currentStage and rethrows.
PipelineFailed(stage) == << LogEntry(stage, "Pipeline failed") >>

(***************************************************************************)
(* hunt(): initializeState and stage 1, reconnaissance (no oracle call).   *)
(***************************************************************************)
Hunt ==
  /\ pc = "idle"
  /\ currentStage' = "reconnaissance"
  /\ logs' = << LogEntry("reconnaissance", "Pipeline started") >>
             \o StageStarted("reconnaissance")
             \o << LogEntry("reconnaissance", "Validating contracts") >>
             \o StageCompleted("reconnaissance")
  /\ pc' = "spawn-begin"
  /\ UNCHANGED << K, contracts, spawnIdx, spawnedExperts, agents, calls, limitQueue,
                  limitActive, tasks, findings, debate, synthesis, forge, exploits,
                  votes, verificationResults, faults, history, factory, arena, rest >>

(***************************************************************************)
(* Stage 2: spawnExperts.                                                  *)
(***************************************************************************)
\* experts_to_spawn lists the spawner oracle may answer with.
Recommendations == SeqsUpTo(OracleNames, 1)

\* What the expert-spawner oracle can answer for one contract: a failed
\* request, text without JSON, JSON of the wrong shape (null, or experts_to_spawn
\* not an array), or JSON recommending `experts`.
SpawnAnswers(recs) ==
  { [kind |-> k, experts |-> << >>] : k \in { "transport", "garbage", "badshape" } }
  \cup { [kind |-> "json", experts |-> r] : r \in recs }

SpawnResponses == SpawnAnswers(Recommendations)

\* Whether control reaches the catch block of spawnExperts: analyzeStructured
\* rejected, or building the ContractAnalysis from the data threw.
SpawnParseError(resp) == AnalyzeStructuredThrows(resp) \/ resp.kind = "badshape"

\* A spawnExperts whose catch block leaves expertsToSpawn as the answer gave it.
ExpertsRecommended(resp) == resp.experts

\* analysis.expertsToSpawn after the try/catch of spawnExperts.
ExpertsToSpawn(resp) ==
  IF SpawnParseError(resp) THEN DefaultExperts ELSE resp.experts

SpawnExpertsBegin ==
  /\ pc = "spawn-begin"
  /\ currentStage' = "expert-spawning"
  /\ agents' = agents \cup { "ExpertSpawner" }
  /\ IF contracts = 0
       THEN /\ logs' = logs \o StageStarted("expert-spawning")
                       \o << LogEntry("expert-spawning", "Spawning complete") >>
                       \o StageCompleted("expert-spawning")
            /\ pc' = "analysis-begin"
            /\ UNCHANGED << calls, spawnIdx >>
       ELSE /\ logs' = logs \o StageStarted("expert-spawning")
                       \o << LogEntry("expert-spawning", "Analyzing contract") >>
            /\ spawnIdx' = 1
            /\ calls' = calls \cup { Call("expert-spawning", "ExpertSpawner", 0, 0) }
            /\ pc' = "spawn"
  /\ UNCHANGED << K, contracts, spawnedExperts, limitQueue, limitActive, tasks,
                  findings, debate, synthesis, forge, exploits, votes,
                  verificationResults, faults, history, factory, arena, rest >>

\* The spawner's answer for contract spawnIdx arrives: the rest of the loop body,
\* then the next contract's call or the end of the stage.
SpawnOracleReturn(answers) ==
  /\ pc = "spawn"
  /\ \E resp \in answers :
       /\ IsFault(resp) => faults < MaxFaults
       /\ LET toSpawn == ExpertsToSpawn(resp)
              entries ==
                (IF SpawnParseError(resp)
                   THEN << LogEntry("expert-spawning", "Parse error, using default experts") >>
                   ELSE << >>)
                \o << LogEntry("expert-spawning", "Analysis complete") >>
                \o [i \in 1..Len(toSpawn) |-> LogEntry("expert-spawning", "Expert spawned")]
          IN /\ faults' = IF IsFault(resp) THEN faults + 1 ELSE faults
             /\ agents' = agents \cup Range(toSpawn)
             /\ spawnedExperts' = spawnedExperts \o toSpawn
             /\ history' =
                  [history EXCEPT
                     !.parseFailed = IF SpawnParseError(resp) THEN @ \cup { spawnIdx } ELSE @,
                     !.spawnedFor = @ \o << toSpawn >>]
             /\ IF spawnIdx < contracts
                  THEN /\ spawnIdx' = spawnIdx + 1
                       /\ logs' = logs \o entries
                                  \o << LogEntry("expert-spawning", "Analyzing contract") >>
                       /\ calls' = { Call("expert-spawning", "ExpertSpawner", 0, 0) }
                       /\ pc' = "spawn"
                  ELSE /\ logs' = logs \o entries
                                  \o << LogEntry("expert-spawning", "Spawning complete") >>
                                  \o StageCompleted("expert-spawning")
                       /\ calls' = { }
                       /\ pc' = "analysis-begin"
                       /\ UNCHANGED spawnIdx
  /\ UNCHANGED << K, contracts, currentStage, limitQueue, limitActive, tasks, findings,
                  debate, synthesis, forge, exploits, votes, verificationResults,
                  factory, arena, rest >>

(***************************************************************************)
(* p-limit (concurrencyLimit): at most K of the functions handed to it run *)
(* at once; the others wait in a FIFO queue; a function that settles,      *)
(* resolved or rejected, lets the head of the queue start.                 *)
(***************************************************************************)
\* How many of n functions handed to the limiter at once start right away.
LimitRun(n) == Min(K - limitActive, n)

(***************************************************************************)
(* Stage 3: parallelAnalysis.  One closure per entry of spawnedExperts is  *)
(* handed to concurrencyLimit; each loops over the contracts, one oracle   *)
(* call at a time.                                                         *)
(***************************************************************************)
\* The raw findings an expert's oracle reports (confidence in tenths): each
\* expert reports its own kind, so that findings of one expert share a title
\* and findings of different experts differ in title and score.
RawFindingOf(name) ==
  CASE name = "ReentrancyExpert" ->
         [title |-> "Reentrancy in withdraw", severity |-> "HIGH", confidence |-> 9]
    [] name = "OracleExpert" ->
         [title |-> "Stale price feed", severity |-> "CRITICAL", confidence |-> 6]
    [] name = "AccessControlExpert" ->
         [title |-> "Unprotected initializer", severity |-> "MEDIUM", confidence |-> 8]
    [] OTHER ->
         [title |-> "Rounding error", severity |-> "LOW", confidence |-> 5]

\* What the analysis oracle can answer to `name`: a failed request, text
\* without JSON, an array of up to `room` findings ("json"), or JSON that stops
\* being such an array after the entries in raw ("badshape": not iterable, or
\* an entry that is null).
AnalysisResponses(name, room) ==
  { [kind |-> k, raw |-> << >>] : k \in { "transport", "garbage" } }
  \cup { [kind |-> k, raw |-> [i \in 1..n |-> RawFindingOf(name)]] :
           k \in { "json", "badshape" }, n \in 0..room }

\* The id given at orchestrator.ts:293: the expert's name, then a timestamp and a
\* random suffix, which the triple (task, contract, position) stands for.
FindingId(name, e, c, k) == [by |-> name, task |-> e, contract |-> c, k |-> k]

\* Whether control reaches the catch block inside the closure's loop:
\* analyzeStructured rejected, or iterating the data threw.
AnalysisCallFailed(resp) == AnalyzeStructuredThrows(resp) \/ resp.kind = "badshape"

\* The findings one answer contributes: the body of the try block.  Each entry
\* is pushed as the loop reaches it, so the entries before a broken one stay.
FindingsOfAnswer(resp, name, e, c) ==
  IF AnalyzeStructuredThrows(resp)
    THEN << >>
    ELSE [k \in 1..Len(resp.raw) |->
            [id |-> FindingId(name, e, c, k),
             title |-> resp.raw[k].title,
             severity |-> resp.raw[k].severity,
             confidence |-> resp.raw[k].confidence,
             discoveredBy |-> name,
             status |-> "proposed",
             debateHistory |-> << >>]]

\* Findings created so far by the analysis closures.
FindingsSoFar == Len(Flatten([e \in 1..Len(tasks) |-> tasks[e].found]))

AnalysisCall(e) == Call("parallel-analysis", spawnedExperts[e], e, 0)

\* A closure whose loop ends at the first failed call.
LoopEndsOnFailure(c, failed) == c < contracts /\ ~failed

\* Whether the closure's loop goes on to the next contract after contract c.
\* (The catch block swallows the error, so a failed call does not end the loop.)
LoopContinues(c, failed) == c < contracts

ParallelAnalysisBegin ==
  /\ pc = "analysis-begin"
  /\ currentStage' = "parallel-analysis"
  /\ LET n == Len(spawnedExperts)
         run == LimitRun(n)
     IN /\ tasks' = [e \in 1..n |->
                       [contract |-> 1,
                        st |-> IF e <= run THEN "calling" ELSE "queued",
                        found |-> << >>]]
        /\ limitActive' = limitActive + run
        /\ limitQueue' = limitQueue \o [i \in 1..(n - run) |-> run + i]
        /\ calls' = calls \cup { AnalysisCall(e) : e \in 1..run }
        /\ logs' = logs \o StageStarted("parallel-analysis")
                   \o << LogEntry("parallel-analysis", "Starting analysis") >>
                   \o [e \in 1..run |-> LogEntry("parallel-analysis", "analyzing")]
        /\ history' = [history EXCEPT !.issued = @ \cup { << e, 1 >> : e \in 1..run }]
  /\ pc' = "analysis"
  /\ UNCHANGED << K, contracts, spawnIdx, spawnedExperts, agents, findings, debate,
                  synthesis, forge, exploits, votes, verificationResults, faults,
                  factory, arena, rest >>

\* The answer to task e's call for its current contract arrives: the try/catch,
\* then the next contract's call, or the closure returns and p-limit starts the
\* next queued closure.
AnalysisOracleReturn(e) ==
  /\ e \in 1..Len(tasks)
  /\ tasks[e].st = "calling"
  /\ \E resp \in AnalysisResponses(spawnedExperts[e], MaxFindings - FindingsSoFar) :
       /\ IsFault(resp) => faults < MaxFaults
       /\ LET c == tasks[e].contract
              name == spawnedExperts[e]
              failed == AnalysisCallFailed(resp)
              found == tasks[e].found \o FindingsOfAnswer(resp, name, e, c)
              errlog == IF failed THEN << LogEntry("parallel-analysis", "error") >>
                                  ELSE << >>
              noted == [history EXCEPT
                          !.failedPairs = IF AnalyzeStructuredThrows(resp)
                                            THEN @ \cup { << e, c >> } ELSE @,
                          !.returned = @ \cup { [task |-> e, contract |-> c,
                                                 n |-> Len(resp.raw)] }]
          IN /\ faults' = IF IsFault(resp) THEN faults + 1 ELSE faults
             /\ IF LoopContinues(c, failed)
                  THEN \* next iteration of the closure's loop
                       /\ tasks' = [tasks EXCEPT ![e] =
                                      [contract |-> c + 1, st |-> "calling", found |-> found]]
                       /\ logs' = logs \o errlog
                                  \o << LogEntry("parallel-analysis", "analyzing") >>
                       /\ history' = [noted EXCEPT !.issued = @ \cup { << e, c + 1 >> }]
                       /\ UNCHANGED << calls, limitQueue, limitActive >>
                  ELSE \* the closure returns; p-limit's next() dequeues
                       IF limitQueue # << >>
                         THEN LET nxt == Head(limitQueue)
                              IN /\ tasks' = [tasks EXCEPT
                                                ![e] = [contract |-> c, st |-> "done",
                                                        found |-> found],
                                                ![nxt] = [@ EXCEPT !.st = "calling"]]
                                 /\ limitQueue' = Tail(limitQueue)
                                 /\ calls' = (calls \ { AnalysisCall(e) })
                                             \cup { AnalysisCall(nxt) }
                                 /\ logs' = logs \o errlog
                                            \o << LogEntry("parallel-analysis", "analyzing") >>
                                 /\ history' = [noted EXCEPT !.issued = @ \cup { << nxt, 1 >> }]
                                 /\ UNCHANGED limitActive
                         ELSE /\ tasks' = [tasks EXCEPT
                                             ![e] = [contract |-> c, st |-> "done",
                                                     found |-> found]]
                              /\ limitActive' = limitActive - 1
                              /\ calls' = calls \ { AnalysisCall(e) }
                              /\ logs' = logs \o errlog
                              /\ history' = noted
                              /\ UNCHANGED limitQueue
  /\ UNCHANGED << K, contracts, pc, currentStage, spawnIdx, spawnedExperts, agents,
                  findings, debate, synthesis, forge, exploits, votes,
                  verificationResults, factory, arena, rest >>

\* A join that resolves with the first closure to return (Promise.race).
AnySettled(ts) == \E e \in 1..Len(ts) : ts[e].st = "done"

\* Whether Promise.all over the closures ts resolves: every one has returned.
AllSettled(ts) == \A e \in 1..Len(ts) : ts[e].st = "done"

\* Promise.all(analysisPromises) resolves: state.findings = allFindings.flat().
ParallelAnalysisJoin ==
  /\ pc = "analysis"
  /\ AllSettled(tasks)
  /\ findings' = Flatten([e \in 1..Len(tasks) |-> tasks[e].found])
  /\ logs' = logs \o << LogEntry("parallel-analysis", "Analysis complete") >>
             \o StageCompleted("parallel-analysis")
  /\ pc' = "debate-begin"
  /\ UNCHANGED << K, contracts, currentStage, spawnIdx, spawnedExperts, agents, calls,
                  limitQueue, limitActive, tasks, debate, synthesis, forge, exploits,
                  votes, verificationResults, faults, history, factory, arena, rest >>

(***************************************************************************)
(* Stage 4: adversarialDebate.  The findings are objects shared by         *)
(* state.findings, the session and the closures: a finding is referred to  *)
(* by its index in state.findings.  session.rounds is kept per target      *)
(* finding (sess[i] is the subsequence of entries whose targetFinding is   *)
(* finding i's id).                                                        *)
(***************************************************************************)
SeverityWeight(sev) ==
  CASE sev = "CRITICAL" -> 4 [] sev = "HIGH" -> 3 [] sev = "MEDIUM" -> 2
    [] sev = "LOW" -> 1 [] OTHER -> 0

\* severity weight x confidence (confidence in tenths).
Score(f) == SeverityWeight(f.severity) * f.confidence

\* Array.prototype.sort with (a, b) => scoreB - scoreA is a stable descending
\* sort: index i goes behind every index already placed whose score is >= its own.
RECURSIVE InsertByScore(_, _, _)
InsertByScore(fs, sorted, i) ==
  IF sorted = << >> THEN << i >>
  ELSE IF Score(fs[Head(sorted)]) >= Score(fs[i])
         THEN << Head(sorted) >> \o InsertByScore(fs, Tail(sorted), i)
         ELSE << i >> \o sorted

RECURSIVE SortByScore(_, _, _)
SortByScore(fs, k, acc) ==
  IF k > Len(fs) THEN acc ELSE SortByScore(fs, k + 1, InsertByScore(fs, acc, k))

\* A cut of the findings in the order they were reported, without the sort.
UnsortedCut(fs) == [i \in 1..Min(MAX_FINDINGS_TO_DEBATE, Len(fs)) |-> i]

\* prioritizedFindings: sorted by score, cut to MAX_FINDINGS_TO_DEBATE.
PrioritizedFindings(fs) ==
  LET sorted == SortByScore(fs, 1, << >>)
  IN SubSeq(sorted, 1, Min(MAX_FINDINGS_TO_DEBATE, Len(sorted)))

\* The list the loops of round r iterate over.
RoundList(d, r) == IF r = 1 THEN d.prioritized ELSE d.debating

\* The batch that starts at offset `from` of list l: l.slice(from, from + BATCH_SIZE).
Batch(l, from) == SubSeq(l, from + 1, Min(from + BATCH_SIZE, Len(l)))

\* The agent whose method the closure of round r invokes for the finding at
\* position idx (from 0) of its batch.
DebateAgent(fs, r, i, idx) ==
  CASE r = 1 -> fs[i].discoveredBy
    [] r = 2 -> RedTeam[(idx % Len(RedTeam)) + 1]
    [] r = 3 -> BlueTeam[(idx % Len(BlueTeam)) + 1]
    [] OTHER -> DevilsAdvocates[(idx % Len(DevilsAdvocates)) + 1]

\* A batch that does not wait for the round to end: it issues its calls of
\* round r and, with them, those of the round after.
BatchCallsAhead(fs, known, r, batch) ==
  { Call("adversarial-debate", DebateAgent(fs, q, batch[j], j - 1), batch[j], q) :
      j \in { j \in 1..Len(batch) : r = 1 => fs[batch[j]].discoveredBy \in known },
      q \in { r, Min(r + 1, 4) } }

\* The calls a batch issues, all at once (Promise.all over batch.map): in round 1
\* only for findings whose expert is in this.agents.  The limiter is not involved.
BatchCalls(fs, known, r, batch) ==
  { Call("adversarial-debate", DebateAgent(fs, r, batch[j], j - 1), batch[j], r) :
      j \in { j \in 1..Len(batch) : r = 1 => fs[batch[j]].discoveredBy \in known } }

RoundAction(r) ==
  CASE r = 1 -> "present" [] r = 2 -> "attack" [] r = 3 -> "defend" [] OTHER -> "challenge"

DebateEntry(r, speaker, id) ==
  [round |-> r, speaker |-> speaker, action |-> RoundAction(r), targetFinding |-> id]

\* The entry logged before the loop of round r.
RoundLog(r) ==
  LogEntry("adversarial-debate",
           CASE r = 1 -> "Round 1" [] r = 2 -> "Round 2" [] r = 3 -> "Round 3"
             [] OTHER -> "Round 4")

DebateAgents == Range(RedTeam) \cup Range(BlueTeam) \cup Range(DevilsAdvocates)

\* What a debate oracle (presentArgument, attackFinding, defendFinding: all
\* BaseAgent.analyze) can answer: a failed request or text.
TextResponses == { [kind |-> "transport"], [kind |-> "json"] }

AdversarialDebateBegin ==
  /\ pc = "debate-begin"
  /\ currentStage' = "adversarial-debate"
  /\ IF findings = << >>
       THEN /\ logs' = logs \o StageStarted("adversarial-debate")
                       \o << LogEntry("adversarial-debate", "No findings to debate") >>
                       \o StageCompleted("adversarial-debate")
            /\ pc' = "synthesis-begin"
            /\ UNCHANGED << agents, debate, calls >>
       ELSE LET prio == PrioritizedFindings(findings)
            IN /\ agents' = agents \cup DebateAgents
               /\ debate' = [prioritized |-> prio, debating |-> << >>, round |-> 1,
                             from |-> 0,
                             sess |-> [i \in 1..Len(findings) |-> << >>],
                             pushed |-> FALSE]
               /\ calls' = calls \cup BatchCalls(findings, agents, 1, Batch(prio, 0))
               /\ logs' = logs \o StageStarted("adversarial-debate")
                          \o << LogEntry("adversarial-debate", "Prioritizing findings"),
                                RoundLog(1) >>
               /\ pc' = "debate"
  /\ UNCHANGED << K, contracts, spawnIdx, spawnedExperts, limitQueue, limitActive,
                  tasks, findings, synthesis, forge, exploits, votes,
                  verificationResults, faults, history, factory, arena, rest >>

\* The finding after the closure of round r got its answer from `speaker`.
AfterDebateAnswer(f, r, speaker) ==
  IF r = 1
    THEN [f EXCEPT !.status = "debating"]
    ELSE [f EXCEPT !.debateHistory = @ \o << DebateEntry(r, speaker, f.id) >>]

\* The answer resp to one debate call arrives.  Text: the closure pushes its
\* round entry and updates the finding; what the text says is not looked at.  A
\* failed request: the closure rejects, so does Promise.all, adversarialDebate
\* and executeStage, and hunt() logs and rethrows (once); the batch's other
\* calls stay in flight.
DebateAnswered(call, resp) ==
  /\ IsFault(resp) => faults < MaxFaults
  /\ faults' = IF IsFault(resp) THEN faults + 1 ELSE faults
  /\ calls' = calls \ { call }
  /\ IF AnalyzeThrows(resp)
       THEN /\ IF pc = "debate"
                 THEN /\ pc' = "failed"
                      /\ logs' = logs \o PipelineFailed(currentStage)
                 ELSE UNCHANGED << pc, logs >>
            /\ UNCHANGED << findings, debate >>
       ELSE LET i == call.task
            IN /\ debate' = [debate EXCEPT !.sess[i] =
                               @ \o << DebateEntry(call.round, call.agent,
                                                   findings[i].id) >>]
               /\ findings' = [findings EXCEPT ![i] =
                                 AfterDebateAnswer(@, call.round, call.agent)]
               /\ UNCHANGED << pc, logs >>

DebateOracleReturn(call) ==
  /\ call \in calls
  /\ call.stage = "adversarial-debate"
  /\ \E resp \in TextResponses : DebateAnswered(call, resp)
  /\ UNCHANGED << K, contracts, currentStage, spawnIdx, spawnedExperts, agents,
                  limitQueue, limitActive, tasks, synthesis, forge, exploits, votes,
                  verificationResults, history, factory, arena, rest >>

\* What a defender can answer: a failed request, or text that defends the
\* finding or concedes it.
DefenseTexts ==
  { [kind |-> "transport"], [kind |-> "json", concedes |-> FALSE],
    [kind |-> "json", concedes |-> TRUE] }

\* The texts the oracle of a round-r call can answer.
DebateTexts(r) ==
  IF r = 3 THEN DefenseTexts ELSE { [kind |-> "transport"], [kind |-> "json", concedes |-> FALSE] }

\* The same step, the findings whose defender conceded kept on record.
DebateOracleReplies(call) ==
  /\ call \in calls
  /\ call.stage = "adversarial-debate"
  /\ \E resp \in DebateTexts(call.round) :
       /\ DebateAnswered(call, resp)
       /\ history' = [history EXCEPT
                        !.conceded = IF resp.kind = "json" /\ resp.concedes
                                       THEN @ \cup { call.task } ELSE @]
  /\ UNCHANGED << K, contracts, currentStage, spawnIdx, spawnedExperts, agents,
                  limitQueue, limitActive, tasks, synthesis, forge, exploits, votes,
                  verificationResults, factory, arena, rest >>

\* Findings not in prioritizedFindings are set (back) to proposed.
MarkUndebated(fs, prio) ==
  [i \in 1..Len(fs) |->
     IF i \in Range(prio) THEN fs[i] ELSE [fs[i] EXCEPT !.status = "proposed"]]

\* Promise.all of a batch resolves: the next batch of the round, the first
\* batch of the next round, or the end of the stage.
AdversarialDebateJoin ==
  /\ pc = "debate"
  /\ calls = { }
  /\ LET r == debate.round
         l == RoundList(debate, r)
         debating == IF r = 1
                       THEN SelectSeq(debate.prioritized,
                                      LAMBDA i : findings[i].status = "debating")
                       ELSE debate.debating
     IN IF debate.from + BATCH_SIZE < Len(l)
          THEN \* next batch of this round
               /\ debate' = [debate EXCEPT !.from = @ + BATCH_SIZE]
               /\ calls' = BatchCalls(findings, agents, r, Batch(l, debate.from + BATCH_SIZE))
               /\ UNCHANGED << pc, logs, findings >>
          ELSE IF r < 4 /\ debating # << >>
            THEN \* first batch of the next round
                 /\ debate' = [debate EXCEPT !.round = r + 1, !.from = 0,
                                             !.debating = debating]
                 /\ calls' = BatchCalls(findings, agents, r + 1, Batch(debating, 0))
                 /\ logs' = logs \o << RoundLog(r + 1) >>
                 /\ UNCHANGED << pc, findings >>
            ELSE \* the loops of the remaining rounds run over nothing
                 /\ debate' = [debate EXCEPT !.debating = debating, !.pushed = TRUE]
                 /\ findings' = MarkUndebated(findings, debate.prioritized)
                 /\ logs' = logs
                            \o [k \in 1..(4 - r) |-> RoundLog(r + k)]
                            \o << LogEntry("adversarial-debate", "Debate complete") >>
                            \o StageCompleted("adversarial-debate")
                 /\ pc' = "synthesis-begin"
                 /\ UNCHANGED calls
  /\ UNCHANGED << K, contracts, currentStage, spawnIdx, spawnedExperts, agents,
                  limitQueue, limitActive, tasks, synthesis, forge, exploits, votes,
                  verificationResults, faults, history, factory, arena, rest >>

(***************************************************************************)
(* Stage 5: synthesize (The Pope), and hunt()'s branch on its result.      *)
(***************************************************************************)
\* An entry of validated_vulnerabilities that repeats finding f as it was shown.
Echo(f) ==
  [id |-> f.id, title |-> f.title, severity |-> f.severity, confidence |-> f.confidence]

\* An entry that names a finding by its title only, with the Pope's own rating.
ByTitle(f) ==
  [id |-> FindingId("ThePope", 0, 0, 0), title |-> f.title, severity |-> "CRITICAL",
   confidence |-> 10]

\* The indices in I, ascending (I a subset of 1..n).
Ascending(n, I) == SelectSeq([j \in 1..n |-> j], LAMBDA j : j \in I)

\* What the Pope's oracle can answer: a failed request, text without JSON, JSON
\* without the two arrays, or JSON whose validated_vulnerabilities repeats some
\* of the findings (or names one by title) and whose rejected_vulnerabilities
\* lists ids of some of the findings.
PopeResponses(fs) ==
  LET n == Len(fs)
      echoes == { [i \in 1..Cardinality(I) |-> Echo(fs[Ascending(n, I)[i]])] :
                    I \in SUBSET (1..n) }
      titled == { << ByTitle(fs[i]) >> : i \in 1..n }
  IN { [kind |-> k, validated |-> << >>, rejected |-> { }] :
         k \in { "transport", "garbage", "badshape" } }
     \cup { [kind |-> "json", validated |-> v, rejected |-> { fs[i].id : i \in R }] :
              v \in echoes \cup titled, R \in SUBSET (1..n) }

\* A lookup that tries the first entry of validated_vulnerabilities only.
FindValidatedHead(validated, f) ==
  IF validated # << >> /\ (Head(validated).id = f.id \/ Head(validated).title = f.title)
    THEN << Head(validated) >>
    ELSE << >>

\* validated_vulnerabilities.find(v => v.id === finding.id || v.title === finding.title):
\* the first matching entry, << >> standing for undefined.
FindValidated(validated, f) ==
  LET hits == SelectSeq(validated, LAMBDA v : v.id = f.id \/ v.title = f.title)
  IN IF hits = << >> THEN << >> ELSE << Head(hits) >>

\* rejected_vulnerabilities.find(r => r.id === finding.id) is defined.
FindRejected(rejected, f) == f.id \in rejected

\* A loop that rejects whatever the Pope did not validate.
AdjudicateOrReject(f, resp) ==
  LET v == FindValidated(resp.validated, f)
  IN IF v # << >>
       THEN [f EXCEPT !.status = "validated", !.severity = v[1].severity,
                      !.confidence = v[1].confidence]
       ELSE [f EXCEPT !.status = "rejected"]

\* One iteration of the loop at orchestrator.ts:628.
Adjudicate(f, resp) ==
  LET v == FindValidated(resp.validated, f)
  IN IF v # << >>
       THEN [f EXCEPT !.status = "validated", !.severity = v[1].severity,
                      !.confidence = v[1].confidence]
       ELSE IF FindRejected(resp.rejected, f)
              THEN [f EXCEPT !.status = "rejected"]
              ELSE f

\* Indices of the findings with status st, in order: findings.filter(...).
WithStatus(fs, st) == SelectSeq([i \in 1..Len(fs) |-> i], LAMBDA i : fs[i].status = st)

\* Whether synthesize throws on this answer: analyzeStructured rejected, or the
\* loop over the findings reads .find of a missing array.
SynthesisThrows(resp, fs) ==
  AnalyzeStructuredThrows(resp) \/ (resp.kind = "badshape" /\ fs # << >>)

\* A hunt() that runs stage 6 and 7 unconditionally.
ForgeAlways(validated) == TRUE

\* hunt()'s test before stage 6: validatedVulnerabilities.length is truthy.
ForgeNeeded(validated) == validated # << >>

SynthesizeBegin ==
  /\ pc = "synthesis-begin"
  /\ currentStage' = "synthesis"
  /\ agents' = agents \cup { "ThePope" }
  /\ logs' = logs \o StageStarted("synthesis")
             \o << LogEntry("synthesis", "Pope synthesizing") >>
  /\ calls' = calls \cup { Call("synthesis", "ThePope", 0, 0) }
  /\ pc' = "synthesis"
  /\ UNCHANGED << K, contracts, spawnIdx, spawnedExperts, limitQueue, limitActive,
                  tasks, findings, debate, synthesis, forge, exploits, votes,
                  verificationResults, faults, history, factory, arena, rest >>

\* The Pope's answer resp arrives: the rest of synthesize, the end of the stage,
\* and hunt()'s test of validatedVulnerabilities.length; with nothing validated
\* hunt() logs the completion and returns.
Synthesized(resp) ==
  /\ IsFault(resp) => faults < MaxFaults
  /\ faults' = IF IsFault(resp) THEN faults + 1 ELSE faults
  /\ calls' = calls \ { Call("synthesis", "ThePope", 0, 0) }
  /\ IF SynthesisThrows(resp, findings)
       THEN /\ pc' = "failed"
            /\ logs' = logs \o PipelineFailed(currentStage)
            /\ UNCHANGED << findings, synthesis >>
       ELSE LET fs == [i \in 1..Len(findings) |-> Adjudicate(findings[i], resp)]
                validated == WithStatus(fs, "validated")
            IN /\ findings' = fs
               /\ synthesis' = [done |-> TRUE,
                                validatedVulnerabilities |-> validated,
                                rejectedVulnerabilities |-> WithStatus(fs, "rejected")]
               /\ IF ForgeNeeded(validated)
                    THEN /\ logs' = logs
                              \o << LogEntry("synthesis", "Synthesis complete") >>
                              \o StageCompleted("synthesis")
                         /\ pc' = "forge-begin"
                    ELSE /\ logs' = logs
                              \o << LogEntry("synthesis", "Synthesis complete") >>
                              \o StageCompleted("synthesis")
                              \o << LogEntry("submission", "Pipeline completed") >>
                         /\ pc' = "done"

SynthesisOracleReturn ==
  /\ pc = "synthesis"
  /\ \E resp \in PopeResponses(findings) : Synthesized(resp)
  /\ UNCHANGED << K, contracts, currentStage, spawnIdx, spawnedExperts, agents,
                  limitQueue, limitActive, tasks, debate, forge, exploits, votes,
                  verificationResults, history, factory, arena, rest >>

\* Answers that name at most one finding in each array: by its id with its own
\* rating, or by its title with the Pope's rating.
SingleVerdicts(fs) ==
  { [kind |-> k, validated |-> << >>, rejected |-> { }] :
      k \in { "transport", "garbage", "badshape" } }
  \cup { [kind |-> "json", validated |-> v, rejected |-> R] :
           v \in { << >> } \cup { << Echo(fs[i]) >> : i \in 1..Len(fs) }
                 \cup { << ByTitle(fs[i]) >> : i \in 1..Len(fs) },
           R \in { { } } \cup { { fs[i].id } : i \in 1..Len(fs) } }

\* Answers whose validated_vulnerabilities lists up to two entries in either
\* order, each naming a finding by id or by title, and whose
\* rejected_vulnerabilities lists ids of some findings.
OrderedVerdicts(fs) ==
  LET entries == { Echo(fs[i]) : i \in 1..Len(fs) } \cup { ByTitle(fs[i]) : i \in 1..Len(fs) }
      lists == { << >> } \cup { << v >> : v \in entries }
               \cup UNION { { << v, w >> : w \in entries \ { v } } : v \in entries }
  IN { [kind |-> k, validated |-> << >>, rejected |-> { }] :
         k \in { "transport", "garbage", "badshape" } }
     \cup { [kind |-> "json", validated |-> v, rejected |-> { fs[i].id : i \in R }] :
              v \in lists, R \in SUBSET (1..Len(fs)) }

\* The same step for an answer drawn from `answers`, the answer kept on record.
SynthesisAnswered(answers) ==
  /\ pc = "synthesis"
  /\ \E resp \in answers :
       /\ Synthesized(resp)
       /\ history' = [history EXCEPT !.pope = << resp >>]
  /\ UNCHANGED << K, contracts, currentStage, spawnIdx, spawnedExperts, agents,
                  limitQueue, limitActive, tasks, debate, forge, exploits, votes,
                  verificationResults, factory, arena, rest >>

(***************************************************************************)
(* Stage 6: forgeExploits.  Per validated finding, three smith calls are   *)
(* handed to concurrencyLimit; the Forge Master is called directly.        *)
(***************************************************************************)
SmithCall(a) == Call("exploit-forge", Smiths[a], a, 0)

ForgeMasterCall == Call("exploit-forge", "ForgeMaster", 0, 0)

\* this.state.exploits.push({... verified: false ...}) for finding i.
NewExploit(i) == [vulnerability |-> i, verified |-> FALSE]

ForgeExploitsBegin ==
  /\ pc = "forge-begin"
  /\ currentStage' = "exploit-forge"
  /\ IF synthesis.validatedVulnerabilities = << >>
       THEN /\ logs' = logs \o StageStarted("exploit-forge")
                       \o << LogEntry("exploit-forge", "No validated findings") >>
                       \o StageCompleted("exploit-forge")
            /\ pc' = "verify-begin"
            /\ UNCHANGED << agents, forge, calls, limitQueue, limitActive >>
       ELSE LET run == LimitRun(Len(Smiths))
            IN /\ agents' = agents \cup { "ForgeMaster" }
               /\ forge' = [idx |-> 1, got |-> { }]
               /\ limitActive' = limitActive + run
               /\ limitQueue' = limitQueue \o [i \in 1..(Len(Smiths) - run) |-> run + i]
               /\ calls' = calls \cup { SmithCall(a) : a \in 1..run }
               /\ logs' = logs \o StageStarted("exploit-forge")
                          \o << LogEntry("exploit-forge", "Forging exploit") >>
               /\ pc' = "forge-smiths"
  /\ UNCHANGED << K, contracts, spawnIdx, spawnedExperts, tasks, findings, debate,
                  synthesis, exploits, votes, verificationResults, faults, history,
                  factory, arena, rest >>

\* Smith a's answer arrives.  Its limited function settles, so p-limit starts
\* the head of the queue whether it resolved or rejected.  When the third
\* approach is in, Promise.all resolves and the Forge Master is called; a failed
\* request rejects Promise.all and hunt() logs and rethrows.
ForgeSmithReturn(a) ==
  /\ a \in 1..Len(Smiths)
  /\ SmithCall(a) \in calls
  /\ \E resp \in TextResponses :
       /\ IsFault(resp) => faults < MaxFaults
       /\ faults' = IF IsFault(resp) THEN faults + 1 ELSE faults
       /\ LET started == IF limitQueue # << >> THEN { SmithCall(Head(limitQueue)) }
                                                ELSE { }
              got == IF AnalyzeThrows(resp) THEN forge.got ELSE forge.got \cup { a }
              joined == pc = "forge-smiths" /\ got = 1..Len(Smiths)
          IN /\ limitQueue' = IF limitQueue # << >> THEN Tail(limitQueue) ELSE limitQueue
             /\ limitActive' = IF limitQueue # << >> THEN limitActive ELSE limitActive - 1
             /\ forge' = [forge EXCEPT !.got = got]
             /\ calls' = ((calls \ { SmithCall(a) }) \cup started)
                         \cup (IF joined THEN { ForgeMasterCall } ELSE { })
             /\ IF AnalyzeThrows(resp) /\ pc = "forge-smiths"
                  THEN /\ pc' = "failed"
                       /\ logs' = logs \o PipelineFailed(currentStage)
                  ELSE /\ pc' = IF joined THEN "forge-master" ELSE pc
                       /\ UNCHANGED logs
  /\ UNCHANGED << K, contracts, currentStage, spawnIdx, spawnedExperts, agents, tasks,
                  findings, debate, synthesis, exploits, votes, verificationResults,
                  history, factory, arena, rest >>

\* The Forge Master's answer arrives: the exploit is pushed and the finding
\* marked exploited; then the next validated finding, or the end of the stage.
ForgeMasterReturn ==
  /\ pc = "forge-master"
  /\ \E resp \in TextResponses :
       /\ IsFault(resp) => faults < MaxFaults
       /\ faults' = IF IsFault(resp) THEN faults + 1 ELSE faults
       /\ IF AnalyzeThrows(resp)
            THEN /\ pc' = "failed"
                 /\ logs' = logs \o PipelineFailed(currentStage)
                 /\ calls' = calls \ { ForgeMasterCall }
                 /\ UNCHANGED << findings, exploits, forge, limitQueue, limitActive >>
            ELSE LET i == synthesis.validatedVulnerabilities[forge.idx]
                 IN /\ exploits' = Append(exploits, NewExploit(i))
                    /\ findings' = [findings EXCEPT ![i].status = "exploited"]
                    /\ IF forge.idx < Len(synthesis.validatedVulnerabilities)
                         THEN LET run == LimitRun(Len(Smiths))
                              IN /\ forge' = [idx |-> forge.idx + 1, got |-> { }]
                                 /\ limitActive' = limitActive + run
                                 /\ limitQueue' = limitQueue
                                      \o [k \in 1..(Len(Smiths) - run) |-> run + k]
                                 /\ calls' = (calls \ { ForgeMasterCall })
                                             \cup { SmithCall(a) : a \in 1..run }
                                 /\ logs' = logs
                                      \o << LogEntry("exploit-forge", "Forging exploit") >>
                                 /\ pc' = "forge-smiths"
                         ELSE /\ calls' = calls \ { ForgeMasterCall }
                              /\ logs' = logs
                                   \o << LogEntry("exploit-forge", "Forging complete") >>
                                   \o StageCompleted("exploit-forge")
                              /\ pc' = "verify-begin"
                              /\ UNCHANGED << forge, limitQueue, limitActive >>
  /\ UNCHANGED << K, contracts, currentStage, spawnIdx, spawnedExperts, agents, tasks,
                  debate, synthesis, votes, verificationResults, history, factory, arena, rest >>

(***************************************************************************)
(* Stage 7: SwarmOrchestrator.verify, and the end of hunt().  Per exploit, *)
(* three verifier calls are handed to concurrencyLimit.                    *)
(***************************************************************************)
VerifierCall(v) == Call("verification", Verifiers[v], v, 0)

\* What a verifier's oracle can answer: a failed request, text without JSON,
\* JSON null, or a verdict.
VerifierResponses ==
  { [kind |-> k, vote |-> "none"] : k \in { "transport", "garbage", "badshape" } }
  \cup { [kind |-> "json", vote |-> v] : v \in { "pass", "fail" } }

\* Whether the verifier's limited function rejects: analyzeStructured rejected,
\* or data.vote was read from null.  Nothing in verify catches it.
VerifierThrows(resp) == AnalyzeStructuredThrows(resp) \/ resp.kind = "badshape"

PassCount(got) == Cardinality({ v \in 1..Len(got) : got[v] = "pass" })

\* orchestrator.ts:818
Consensus(passCount) ==
  IF passCount >= 2 THEN "PASS" ELSE IF passCount = 0 THEN "FAIL" ELSE "SPLIT"

\* orchestrator.ts:820
AutoSubmit(passCount) == passCount = 3

\* A result filed under the exploit's own id (`exploit-<finding id>`).
VerificationResultOfExploit(id, got) ==
  [findingId |-> [exploit |-> id], votes |-> got, consensus |-> Consensus(PassCount(got)),
   autoSubmit |-> AutoSubmit(PassCount(got))]

VerificationResult(id, got) ==
  [findingId |-> id, votes |-> got, consensus |-> Consensus(PassCount(got)),
   autoSubmit |-> AutoSubmit(PassCount(got))]

VerificationLog(consensus) ==
  LogEntry("verification",
           CASE consensus = "PASS" -> "Verification PASS"
             [] consensus = "FAIL" -> "Verification FAIL"
             [] OTHER -> "Verification SPLIT")

NoVotes == [v \in 1..Len(Verifiers) |-> "none"]

VerifyBegin ==
  /\ pc = "verify-begin"
  /\ currentStage' = "verification"
  /\ agents' = agents \cup Range(Verifiers)
  /\ IF exploits = << >>
       THEN /\ logs' = logs \o StageStarted("verification")
                       \o StageCompleted("verification")
                       \o << LogEntry("submission", "Pipeline completed") >>
            /\ pc' = "done"
            /\ UNCHANGED << votes, calls, limitQueue, limitActive >>
       ELSE LET run == LimitRun(Len(Verifiers))
            IN /\ votes' = [idx |-> 1, got |-> NoVotes]
               /\ limitActive' = limitActive + run
               /\ limitQueue' = limitQueue \o [i \in 1..(Len(Verifiers) - run) |-> run + i]
               /\ calls' = calls \cup { VerifierCall(v) : v \in 1..run }
               /\ logs' = logs \o StageStarted("verification")
                          \o << LogEntry("verification", "Verifying exploit") >>
               /\ pc' = "verify"
  /\ UNCHANGED << K, contracts, spawnIdx, spawnedExperts, tasks, findings, debate,
                  synthesis, forge, exploits, verificationResults, faults, history,
                  factory, arena, rest >>

\* Verifier v's answer arrives.  Its limited function settles and p-limit
\* starts the head of the queue.  A rejection rejects Promise.all, verify and
\* executeStage, and hunt() logs and rethrows.  With the third vote in, the
\* result is pushed and the exploit marked; then the next exploit, or the stage
\* ends and hunt() logs the completion and returns.
VerifierReturn(v) ==
  /\ v \in 1..Len(Verifiers)
  /\ VerifierCall(v) \in calls
  /\ \E resp \in VerifierResponses :
       /\ IsFault(resp) => faults < MaxFaults
       /\ faults' = IF IsFault(resp) THEN faults + 1 ELSE faults
       /\ LET threw == VerifierThrows(resp)
              started == IF limitQueue # << >> THEN { VerifierCall(Head(limitQueue)) }
                                                ELSE { }
              got == IF threw THEN votes.got ELSE [votes.got EXCEPT ![v] = resp.vote]
              joined == pc = "verify" /\ ~threw /\ \A w \in 1..Len(got) : got[w] # "none"
              e == votes.idx
              result == VerificationResult(findings[exploits[e].vulnerability].id, got)
              more == e < Len(exploits)
              run == Min(K, Len(Verifiers))
          IN /\ history' = IF threw THEN [history EXCEPT !.judgeFailed = @ \cup { << e, v >> }]
                                    ELSE history
             /\ IF joined
                  THEN /\ verificationResults' = Append(verificationResults, result)
                       /\ exploits' = [exploits EXCEPT
                                         ![e].verified = (result.consensus = "PASS")]
                       /\ IF more
                            THEN /\ votes' = [idx |-> e + 1, got |-> NoVotes]
                                 /\ limitActive' = run
                                 /\ limitQueue' = [i \in 1..(Len(Verifiers) - run) |-> run + i]
                                 /\ calls' = (calls \ { VerifierCall(v) })
                                             \cup { VerifierCall(w) : w \in 1..run }
                                 /\ logs' = logs
                                      \o << VerificationLog(result.consensus),
                                            LogEntry("verification", "Verifying exploit") >>
                                 /\ UNCHANGED pc
                            ELSE /\ votes' = [votes EXCEPT !.got = got]
                                 /\ limitActive' = limitActive - 1
                                 /\ calls' = calls \ { VerifierCall(v) }
                                 /\ logs' = logs
                                      \o << VerificationLog(result.consensus) >>
                                      \o StageCompleted("verification")
                                      \o << LogEntry("submission", "Pipeline completed") >>
                                 /\ pc' = "done"
                                 /\ UNCHANGED limitQueue
                  ELSE /\ votes' = [votes EXCEPT !.got = got]
                       /\ limitQueue' = IF limitQueue # << >> THEN Tail(limitQueue)
                                                              ELSE limitQueue
                       /\ limitActive' = IF limitQueue # << >> THEN limitActive
                                                               ELSE limitActive - 1
                       /\ calls' = (calls \ { VerifierCall(v) }) \cup started
                       /\ IF threw /\ pc = "verify"
                            THEN /\ pc' = "failed"
                                 /\ logs' = logs \o PipelineFailed(currentStage)
                            ELSE UNCHANGED << pc, logs >>
                       /\ UNCHANGED << exploits, verificationResults >>
  /\ UNCHANGED << K, contracts, currentStage, spawnIdx, spawnedExperts, agents, tasks,
                  findings, debate, synthesis, forge, factory, arena, rest >>

(***************************************************************************)
(* The state after construction, and the runs of hunt().                   *)
(***************************************************************************)
(***************************************************************************)
(* ExpertFactory (src/src/agents/expert-factory.ts).  factory.experts is   *)
(* the Map spawnedExperts; agents are numbered in order of creation;       *)
(* factory.procs are the spawnExpert calls made so far; factory.epoch      *)
(* counts the clearExperts() calls.                                        *)
(***************************************************************************)
\* Expert definitions spawnExpert is called with.
ExpertDefinitions ==
  { [name |-> "ReentrancyExpert", type |-> "vulnerability", relevantKnowledge |-> 0],
    [name |-> "OracleExpert", type |-> "pattern", relevantKnowledge |-> 1],
    [name |-> "LogicErrorExpert", type |-> "pattern", relevantKnowledge |-> 0] }

\* Contract addresses spawnExpert is called with.
Addresses == { "0xA", "0xB" }

\* existingKey: `${definition.name}-${contract.address}`.
ExistingKey(definition, address) == << definition.name, address >>

\* this.spawnedExperts.get(key): the agents stored under key (none or one).
Existing(experts, key) == { x.agent : x \in { y \in experts : y.key = key } }

\* this.spawnedExperts.set(key, agent).
MapSet(experts, key, agent) ==
  { y \in experts : y.key # key } \cup { [key |-> key, agent |-> agent] }

\* Whether spawnExpert awaits the knowledge base between its check of the map
\* and its set: relevantKnowledge is non-empty, or the type is vulnerability
\* or protocol.
AwaitsKnowledge(definition) ==
  definition.relevantKnowledge > 0 \/ definition.type \in { "vulnerability", "protocol" }

\* A call of spawnExpert(definition, contract): up to its return, or up to its
\* first await.
SpawnExpert(definition, address) ==
  /\ Len(factory.procs) < MaxSpawnCalls
  /\ LET key == ExistingKey(definition, address)
         existing == Existing(factory.experts, key)
         proc == [key |-> key, epoch |-> factory.epoch, until |-> factory.epoch,
                  st |-> "loading", agent |-> 0]
     IN IF existing # { }
          THEN factory' = [factory EXCEPT !.procs = Append(@,
                             [proc EXCEPT !.st = "returned",
                                          !.agent = CHOOSE a \in existing : TRUE])]
          ELSE IF AwaitsKnowledge(definition)
            THEN factory' = [factory EXCEPT !.procs = Append(@, proc)]
            ELSE factory' = [factory EXCEPT
                               !.made = @ + 1,
                               !.experts = MapSet(@, key, factory.made + 1),
                               !.procs = Append(@, [proc EXCEPT !.st = "returned",
                                                                !.agent = factory.made + 1])]
  /\ UNCHANGED << huntVars, arena, rest >>

\* The knowledge base answered call p: the rest of spawnExpert, from createAgent
\* to the return.  The map is not looked at again.
KnowledgeLoaded(p) ==
  /\ p \in 1..Len(factory.procs)
  /\ factory.procs[p].st = "loading"
  /\ factory' = [factory EXCEPT
                   !.made = @ + 1,
                   !.experts = MapSet(@, factory.procs[p].key, factory.made + 1),
                   !.procs[p] = [@ EXCEPT !.st = "returned", !.until = factory.epoch,
                                          !.agent = factory.made + 1]]
  /\ UNCHANGED << huntVars, arena, rest >>

ClearExperts ==
  /\ factory.epoch < MaxClears
  /\ factory' = [factory EXCEPT !.experts = { }, !.epoch = @ + 1]
  /\ UNCHANGED << huntVars, arena, rest >>

\* analyzeContract up to the spawner's oracle call (the knowledge base's
\* pattern lists are built in and returned at once).
AnalyzeContract ==
  /\ factory.analysis.st # "calling"
  /\ factory' = [factory EXCEPT !.analysis = [st |-> "calling", expertsToSpawn |-> << >>]]
  /\ UNCHANGED << huntVars, arena, rest >>

\* Whether analyzeContract rejects on this answer: analyzeStructured rejected,
\* or data.experts_to_spawn.map was read from data of the wrong shape.
AnalyzeContractThrows(resp) == AnalyzeStructuredThrows(resp) \/ resp.kind = "badshape"

\* The spawner's answer arrives: analyzeContract returns the analysis or rejects.
AnalyzeContractReturn ==
  /\ factory.analysis.st = "calling"
  /\ \E resp \in SpawnResponses :
       factory' = [factory EXCEPT !.analysis =
                     IF AnalyzeContractThrows(resp)
                       THEN [st |-> "raised", expertsToSpawn |-> << >>]
                       ELSE [st |-> "returned", expertsToSpawn |-> resp.experts],
                   !.malformed = resp.kind \in { "garbage", "badshape" }]
  /\ UNCHANGED << huntVars, arena, rest >>

\* The ExpertFactory after construction: no expert spawned, no call made.
FactoryInit ==
  [experts |-> { }, made |-> 0, epoch |-> 0, procs |-> << >>,
   analysis |-> [st |-> "idle", expertsToSpawn |-> << >>], malformed |-> FALSE]

(***************************************************************************)
(* Findings lists the analysis oracle can return.                          *)
(***************************************************************************)
\* Findings as the analysis oracle can rate them: title, severity, confidence
\* (in tenths); the scores are pairwise distinct.
Catalogue ==
  << [title |-> "Reentrancy in withdraw",   severity |-> "HIGH",          confidence |-> 9],
     [title |-> "Stale price feed",         severity |-> "CRITICAL",      confidence |-> 5],
     [title |-> "Unprotected initializer",  severity |-> "MEDIUM",        confidence |-> 8],
     [title |-> "Rounding error",           severity |-> "LOW",           confidence |-> 5],
     [title |-> "Flash loan price skew",    severity |-> "CRITICAL",      confidence |-> 10],
     [title |-> "Missing slippage check",   severity |-> "HIGH",          confidence |-> 7],
     [title |-> "Unchecked return value",   severity |-> "MEDIUM",        confidence |-> 7],
     [title |-> "Floating pragma",          severity |-> "INFORMATIONAL", confidence |-> 10],
     [title |-> "Signature replay",         severity |-> "CRITICAL",      confidence |-> 9],
     [title |-> "Griefing by dust",         severity |-> "LOW",           confidence |-> 7],
     [title |-> "Owner can drain",          severity |-> "HIGH",          confidence |-> 10],
     [title |-> "Front-run of approve",     severity |-> "MEDIUM",        confidence |-> 9],
     [title |-> "Timestamp dependence",     severity |-> "LOW",           confidence |-> 10],
     [title |-> "Delegatecall to input",    severity |-> "CRITICAL",      confidence |-> 7],
     [title |-> "Fee on transfer",          severity |-> "HIGH",          confidence |-> 1],
     [title |-> "Unbounded loop",           severity |-> "HIGH",          confidence |-> 5],
     [title |-> "Donation attack",          severity |-> "HIGH",          confidence |-> 8],
     [title |-> "Shadowed variable",        severity |-> "LOW",           confidence |-> 1],
     [title |-> "Read-only reentrancy",     severity |-> "HIGH",          confidence |-> 3] >>

\* s turned left by r places, and s back to front.
Rotate(s, r) == [i \in 1..Len(s) |-> s[((i - 1 + r) % Len(s)) + 1]]

Reverse(s) == [i \in 1..Len(s) |-> s[Len(s) + 1 - i]]

\* The k-th finding of the one analysis call (orchestrator.ts:277-306), rated as
\* `raw` says.
ReportedFinding(raw, k) ==
  [id |-> FindingId("ReentrancyExpert", 1, 1, k), title |-> raw.title,
   severity |-> raw.severity, confidence |-> raw.confidence,
   discoveredBy |-> "ReentrancyExpert", status |-> "proposed", debateHistory |-> << >>]

\* The findings list the call leaves when it answers with the first n ratings of ratings.
ReportedFindings(ratings, n) == [k \in 1..n |-> ReportedFinding(ratings[k], k)]

\* Findings lists of every length from lo to hi: the catalogue in each rotation,
\* forwards and backwards.
FindingLists(lo, hi) ==
  { ReportedFindings(ratings, n) :
      n \in lo..hi,
      ratings \in { Rotate(Catalogue, r) : r \in 0..(Len(Catalogue) - 1) }
                  \cup { Rotate(Reverse(Catalogue), r) : r \in 0..(Len(Catalogue) - 1) } }

(***************************************************************************)
(* DebateArena.debate and ThePope.synthesize, used on their own.  The      *)
(* rounds run one call at a time (for ... await); session.findings are     *)
(* copies, referred to by index.  A round's entries are collected in       *)
(* `entries` and pushed to `rounds` when its loop ends.                    *)
(***************************************************************************)
ArenaExperts == << "ReentrancyExpert", "OracleExpert" >>

\* config.maxRounds: the default, a configuration without a final round, and
\* one below the four rounds that come before the final round.
MaxRoundsConfigs == { 3, 4, 5 }

\* The n findings handed to debate(): the k-th reported by the experts in turn.
ArenaFindings(n) ==
  [k \in 1..n |->
     [ReportedFinding(Catalogue[k], k) EXCEPT
        !.discoveredBy = ArenaExperts[((k - 1) % Len(ArenaExperts)) + 1],
        !.id = FindingId(ArenaExperts[((k - 1) % Len(ArenaExperts)) + 1], 1, 1, k)]]

ArenaInit ==
  [st |-> "idle", maxRounds |-> 5, specialists |-> { }, findings |-> << >>,
   defined |-> { }, alive |-> { }, round |-> 0, list |-> << >>, k |-> 0,
   entries |-> << >>, rounds |-> << >>, call |-> << >>,
   pope |-> [validated |-> << >>, rejected |-> { }]]

ArenaEntry(r, speaker, action, id) ==
  [round |-> r, speaker |-> speaker, action |-> action, targetFinding |-> id]

\* The action of the entry a round-r answer produces: the defence round tests
\* the text against concedesPattern.
ArenaAction(r, resp) ==
  CASE r = 1 -> "present" [] r = 2 -> "attack"
    [] r = 3 -> IF resp.concedes THEN "concede" ELSE "defend"
    [] r = 4 -> "challenge" [] OTHER -> "defend"

\* Who can come to speak for finding i in round r: the specialist that reported
\* it, a random attacker, a random blue-team member or the specialist, a random
\* advocate, the first blue-team member; "none" when the loop body `continue`s.
ArenaSpeakers(a, r, i) ==
  LET by == a.findings[i].discoveredBy
      own == IF by \in a.specialists THEN by ELSE "none"
  IN CASE r = 1 -> { own }
       [] r = 2 -> Range(RedTeam)
       [] r = 3 -> IF \A e \in Range(a.rounds[2]) : e.targetFinding # a.findings[i].id
                     THEN { "none" }
                     ELSE Range(BlueTeam) \cup { own }
       [] r = 4 -> Range(DevilsAdvocates)
       [] OTHER -> { BlueTeam[1] }

\* The findings (indices) an entry with action `concede` targets.
Conceded(fs, entries) ==
  { i \in 1..Len(fs) :
      \E e \in Range(entries) : e.action = "concede" /\ e.targetFinding = fs[i].id }

\* A processConcessions that rejects nothing.
IgnoreConcessions(fs, entries) == { }

\* processConcessions: the findings it marks rejected.
ProcessConcessions(fs, entries) == Conceded(fs, entries)

\* session.findings.filter(f => findingStatus.get(f.id) === 'alive').
AliveList(a) == SelectSeq([i \in 1..Len(a.findings) |-> i], LAMBDA i : i \in a.alive)

\* compileResults: every finding is rejected or validated; debate() returns.
CompileResults(a) ==
  [a EXCEPT !.st = "returned",
            !.findings = [i \in 1..Len(a.findings) |->
                            [a.findings[i] EXCEPT
                               !.status = IF i \in a.alive THEN "validated"
                                                           ELSE "rejected"]]]

\* The loop of the current round has ended: the round is pushed, concessions
\* are processed after the defence round, and the next round starts over the
\* findings still alive; the final round runs only for survivors and below
\* maxRounds.
EndRound(a) ==
  LET gone == IF a.round = 3 THEN ProcessConcessions(a.findings, a.entries) ELSE { }
      b == [a EXCEPT !.rounds = Append(@, a.entries), !.entries = << >>,
                     !.alive = @ \ gone,
                     !.findings = [i \in 1..Len(a.findings) |->
                                     IF i \in gone
                                       THEN [a.findings[i] EXCEPT !.status = "rejected"]
                                       ELSE a.findings[i]]]
      nxt == [b EXCEPT !.round = a.round + 1, !.list = AliveList(b), !.k = 1]
  IN IF a.round < 4 THEN nxt
     ELSE IF a.round = 4 /\ AliveList(b) # << >> /\ Len(b.rounds) < b.maxRounds THEN nxt
     ELSE CompileResults(b)

\* debate() run on from position k of the current round to its next await, or
\* to its return: the states it can come to.
RECURSIVE Advance(_)
Advance(a) ==
  IF a.k > Len(a.list)
    THEN LET b == EndRound(a)
         IN IF b.st = "returned" THEN { b } ELSE Advance(b)
    ELSE LET i == a.list[a.k]
         IN UNION { IF s = "none"
                      THEN Advance([a EXCEPT !.k = @ + 1])
                      ELSE { [a EXCEPT !.call = << [agent |-> s, round |-> a.round,
                                                    task |-> i] >>] } :
                    s \in ArenaSpeakers(a, a.round, i) }

\* debate(findings, contracts, specialists) is called.
Debate(fs, specialists, maxRounds) ==
  /\ arena.st = "idle"
  /\ arena' \in Advance([ArenaInit EXCEPT
                           !.st = "debating", !.maxRounds = maxRounds,
                           !.specialists = specialists,
                           !.findings = [i \in 1..Len(fs) |->
                                           [fs[i] EXCEPT !.status = "debating"]],
                           !.alive = 1..Len(fs), !.round = 1,
                           !.list = [i \in 1..Len(fs) |-> i], !.k = 1])
  /\ UNCHANGED << huntVars, factory, rest >>

\* The answer to the call in flight arrives.  A failed request rejects debate().
\* Text: the entry is pushed to the round and, where the finding has a
\* debateHistory array (the presentation creates it), to the finding.
ArenaOracleReturn ==
  /\ arena.st = "debating"
  /\ arena.call # << >>
  /\ LET c == arena.call[1]
         i == c.task
     IN \E resp \in DebateTexts(c.round) :
          IF AnalyzeThrows(resp)
            THEN arena' = [arena EXCEPT !.st = "failed", !.call = << >>]
            ELSE LET e == ArenaEntry(c.round, c.agent, ArenaAction(c.round, resp),
                                     arena.findings[i].id)
                     kept == c.round = 1 \/ i \in arena.defined
                     a == [arena EXCEPT
                             !.call = << >>,
                             !.entries = Append(@, e),
                             !.defined = IF c.round = 1 THEN @ \cup { i } ELSE @,
                             !.findings[i].debateHistory =
                                IF kept THEN Append(@, e) ELSE @,
                             !.k = @ + 1]
                 IN arena' \in Advance(a)
  /\ UNCHANGED << huntVars, factory, rest >>

\* ThePope.synthesize([session], contracts) is called on the returned session.
PopeSynthesize ==
  /\ arena.st = "returned"
  /\ arena' = [arena EXCEPT !.st = "synthesizing"]
  /\ UNCHANGED << huntVars, factory, rest >>

\* allFindings.find(f => f.id === v.id || f.title === v.title): the first
\* match, << >> standing for undefined.
Original(fs, v) ==
  LET hits == SelectSeq(fs, LAMBDA f : f.id = v.id \/ f.title = v.title)
  IN IF hits = << >> THEN << >> ELSE << Head(hits) >>

\* validatedFindings: for each validated entry with an original, a copy of the
\* original with the entry's rating and status validated.
PopeValidated(fs, validated) ==
  Flatten([k \in 1..Len(validated) |->
             LET o == Original(fs, validated[k])
             IN IF o = << >> THEN << >>
                ELSE << [o[1] EXCEPT !.severity = validated[k].severity,
                                     !.confidence = validated[k].confidence,
                                     !.status = "validated"] >>])

\* rejectedFindings: the original with the id, or a placeholder.
PopeRejected(fs, rejected) ==
  { IF \E i \in 1..Len(fs) : fs[i].id = r
      THEN CHOOSE f \in Range(fs) : f.id = r
      ELSE [id |-> r, title |-> "Unknown", status |-> "rejected"] : r \in rejected }

\* An entry that names no finding of the run, neither by id nor by title.
Stray ==
  [id |-> FindingId("ThePope", 0, 0, 0), title |-> "Unknown weakness",
   severity |-> "CRITICAL", confidence |-> 10]

\* Answers that mention a finding that does not exist, as validated, as
\* rejected or as both.
StrayVerdicts ==
  { [kind |-> "json", validated |-> v, rejected |-> R] :
      v \in { << >>, << Stray >> }, R \in { { }, { Stray.id } } }

\* The Pope's answer arrives: synthesize throws, or returns its PopeSynthesis.
PopeOracleReturn ==
  /\ arena.st = "synthesizing"
  /\ \E resp \in OrderedVerdicts(arena.findings) \cup StrayVerdicts :
       IF AnalyzeStructuredThrows(resp) \/ resp.kind = "badshape"
         THEN arena' = [arena EXCEPT !.st = "synthesis-failed"]
         ELSE arena' = [arena EXCEPT
                          !.st = "synthesized",
                          !.pope = [validated |-> PopeValidated(arena.findings, resp.validated),
                                    rejected |-> PopeRejected(arena.findings, resp.rejected)]]
  /\ UNCHANGED << huntVars, factory, rest >>

(***************************************************************************)
(* VerificationTribunal (src/src/agents/forge/verification-tribunal.ts).   *)
(* The class is exported next to hunt()'s own verify stage; its verifiers  *)
(* are called directly, outside the orchestrator's p-limit.                *)
(***************************************************************************)
MaxVerifiers == 4     \* verifierCount and both thresholds range over 1..MaxVerifiers

\* A field of Partial<TribunalConfig>: a number, or left out (Undefined).
Undefined == 0 - 1
ConfigField == 1..MaxVerifiers \cup { Undefined }

PartialTribunalConfigs ==
  [verifierCount : ConfigField, passThreshold : ConfigField,
   autoSubmitThreshold : ConfigField]

\* `x ?? d`
Coalesce(x, d) == IF x = Undefined THEN d ELSE x

\* The constructor's this.config.
TribunalConfig(config) ==
  [verifierCount |-> Coalesce(config.verifierCount, 3),
   passThreshold |-> Coalesce(config.passThreshold, 2),
   autoSubmitThreshold |-> Coalesce(config.autoSubmitThreshold, 3)]

TribunalInit ==
  [st |-> "none",
   given |-> [verifierCount |-> Undefined, passThreshold |-> Undefined,
              autoSubmitThreshold |-> Undefined],
   config |-> [verifierCount |-> 0, passThreshold |-> 0, autoSubmitThreshold |-> 0],
   verifiers |-> 0,
   votes |-> << >>,
   result |-> [kind |-> "none"]]

\* new VerificationTribunal(config)
NewTribunal(config) ==
  /\ tribunal.st = "none"
  /\ tribunal' = [tribunal EXCEPT
                    !.st = "ready",
                    !.given = config,
                    !.config = TribunalConfig(config),
                    !.verifiers = TribunalConfig(config).verifierCount]
  /\ UNCHANGED << huntVars, factory, arena, hunter, shared, maxDebateRounds,
                  minted >>

\* A consensus that looks at passThreshold alone.
TribunalConsensusByPassThreshold(passCount, config) ==
  IF passCount >= config.passThreshold THEN "PASS"
  ELSE IF passCount > 0 THEN "SPLIT"
  ELSE "FAIL"

\* The consensus of verify(), with the thresholds of this.config.
TribunalConsensus(passCount, config) ==
  IF passCount >= config.autoSubmitThreshold THEN "PASS"
  ELSE IF passCount >= config.passThreshold THEN "PASS"
  ELSE IF passCount > 0 THEN "SPLIT"
  ELSE "FAIL"

TribunalAutoSubmit(passCount, config) == passCount >= config.autoSubmitThreshold

TribunalResult(got, config) ==
  [kind |-> "result", findingId |-> 1, votes |-> got,
   consensus |-> TribunalConsensus(PassCount(got), config),
   autoSubmit |-> TribunalAutoSubmit(PassCount(got), config)]

\* Promise.all over the verifiers' votes: rejected by the first vote that
\* rejects, resolved when every vote is in.
Settle(t) ==
  IF t.st # "voting" THEN t
  ELSE IF \E i \in 1..Len(t.votes) : t.votes[i] = "threw"
    THEN [t EXCEPT !.st = "ready", !.result = [kind |-> "rejected"]]
  ELSE IF \A i \in 1..Len(t.votes) : t.votes[i] \in { "pass", "fail" }
    THEN [t EXCEPT !.st = "ready", !.result = TribunalResult(t.votes, t.config)]
  ELSE t

\* verify(exploit): every verifier is asked at once.
TribunalVerify ==
  /\ tribunal.st = "ready"
  /\ \A i \in 1..Len(tribunal.votes) : tribunal.votes[i] # "wait"
  /\ tribunal' = Settle([tribunal EXCEPT
                           !.st = "voting",
                           !.votes = [i \in 1..tribunal.verifiers |-> "wait"],
                           !.result = [kind |-> "none"]])
  /\ UNCHANGED << huntVars, factory, arena, hunter, shared, maxDebateRounds,
                  minted >>

\* runVerifier's analyzeStructured settles: data.vote, or a rejection.
RunVerifierReturn(i, vote) ==
  /\ i \in 1..Len(tribunal.votes)
  /\ tribunal.votes[i] = "wait"
  /\ tribunal' = Settle([tribunal EXCEPT !.votes[i] = vote])
  /\ UNCHANGED << huntVars, factory, arena, hunter, shared, maxDebateRounds,
                  minted >>

\* No dashboard constructed.
HunterInit == [st |-> "none"]

(***************************************************************************)
(* AutonomousHunter (src/unnamed/part_000) under its DashboardServer       *)
(* (src/unnamed/part_001).  Money is counted in millionths of a dollar.    *)
(***************************************************************************)
MaxHunts == 3         \* hunts the loop starts
MaxTokens == 1        \* input tokens, and output tokens, one hunt consumes
MaxCredit == 20       \* the credit limit ranges over 1..MaxCredit

\* The bounty programs fetchActiveBounties can list.
Programs == { "p1", "p2" }

\* The logs of a PipelineState that hunt() returns: entries made by log(),
\* which have no cost field.
ReturnedLogs ==
  { << LogEntry("reconnaissance", "Pipeline started"),
       LogEntry("submission", "Pipeline completed") >>,
    << LogEntry("reconnaissance", "Pipeline started") >>
    \o StageStarted("reconnaissance") \o StageCompleted("reconnaissance")
    \o << LogEntry("submission", "Pipeline completed") >> }

\* What a completed hunt hands back, and the tokens its oracle calls consumed.
HuntOutcomes ==
  [logs : ReturnedLogs, inputTokens : 0..MaxTokens, outputTokens : 0..MaxTokens]

\* $3 per million input tokens, $15 per million output tokens.
Price(inputTokens, outputTokens) == 3 * inputTokens + 15 * outputTokens

\* estimateCost: the sum over the log entries that carry a cost.
RECURSIVE EstimateCost(_)
EstimateCost(l) ==
  IF l = << >> THEN 0
  ELSE (IF "cost" \in DOMAIN Head(l)
          THEN Price(Head(l).cost.inputTokens, Head(l).cost.outputTokens)
          ELSE 0)
       + EstimateCost(Tail(l))

\* new DashboardServer(config, creditLimit), which constructs the hunter.
Dashboard(creditLimit) ==
  [st |-> "dashboard", creditLimit |-> creditLimit,
   status |-> "idle", creditsUsed |-> 0, creditsRemaining |-> creditLimit,
   running |-> FALSE, paused |-> FALSE, shouldStop |-> FALSE,
   totalCost |-> 0, huntedPrograms |-> { },
   at |-> "off",       \* where start() is suspended: off, fetch, hunt, sleep
   target |-> "none",  \* the program being hunted
   hunts |-> 0,        \* hunts started
   spent |-> 0]        \* price of the tokens the completed hunts consumed

\* updateState after Object.assign: the credit check, which calls hunter.stop().
CreditCheck(h) ==
  LET g == IF h.creditsUsed >= h.creditLimit
             THEN [h EXCEPT !.shouldStop = TRUE, !.status = "idle"]
             ELSE h
  IN [g EXCEPT !.creditsRemaining = g.creditLimit - g.creditsUsed]

\* The head of start()'s loop, up to its next await.
LoopHead(h) ==
  IF h.running /\ ~h.shouldStop
    THEN IF h.paused THEN [h EXCEPT !.at = "sleep"] ELSE [h EXCEPT !.at = "fetch"]
    ELSE CreditCheck([h EXCEPT !.running = FALSE, !.at = "off", !.status = "idle"])

\* POST /api/start
ApiStart ==
  /\ hunter.status # "hunting"
  /\ hunter.creditsRemaining > 0
  /\ hunter' = IF hunter.running
                 THEN [hunter EXCEPT !.status = "hunting"]
                 ELSE LoopHead([hunter EXCEPT !.status = "hunting", !.running = TRUE,
                                              !.shouldStop = FALSE])
  /\ UNCHANGED << huntVars, factory, arena, tribunal, shared, maxDebateRounds,
                  minted >>

\* POST /api/stop
ApiStop ==
  /\ hunter.status # "idle"
  /\ hunter' = [hunter EXCEPT !.status = "stopping", !.shouldStop = TRUE]
  /\ UNCHANGED << huntVars, factory, arena, tribunal, shared, maxDebateRounds,
                  minted >>

\* POST /api/pause
ApiPause ==
  /\ hunter.status = "hunting"
  /\ hunter' = [hunter EXCEPT !.status = "paused", !.paused = TRUE]
  /\ UNCHANGED << huntVars, factory, arena, tribunal, shared, maxDebateRounds,
                  minted >>

\* POST /api/resume
ApiResume ==
  /\ hunter.status = "paused"
  /\ hunter' = [hunter EXCEPT !.status = "hunting", !.paused = FALSE]
  /\ UNCHANGED << huntVars, factory, arena, tribunal, shared, maxDebateRounds,
                  minted >>

\* prioritizeBounties: the score of a program, computed from what the fetch
\* returned for it (reward, age, source code, past payouts).  Here the two
\* programs were launched the same day and differ in maxReward only, so the
\* score of "p1" is the larger at every time.
PriorityScore(program) == IF program = "p1" THEN 2 ELSE 1

\* prioritized[0] while the scores are as above: the unhunted program of the
\* highest score.
Top(unhunted) ==
  CHOOSE p \in unhunted : \A q \in unhunted : PriorityScore(q) <= PriorityScore(p)

\* fetchActiveBounties settles: a rejection, or the programs listed.  With
\* none, or none unhunted, the loop sleeps; otherwise the target is announced
\* and orchestrator.hunt(target) is called.  The scores come with the fetched
\* data, so any unhunted program can be the first.  `counted`: the hunts
\* started are counted, up to MaxHunts.
FetchStep(counted) ==
  /\ hunter.at = "fetch"
  /\ \/ hunter' = [hunter EXCEPT !.at = "sleep"]
     \/ \E bounties \in SUBSET Programs :
          LET unhunted == bounties \ hunter.huntedPrograms
          IN IF bounties = { } THEN hunter' = [hunter EXCEPT !.at = "sleep"]
             ELSE IF unhunted = { }
               THEN hunter' = [hunter EXCEPT !.huntedPrograms = { }, !.at = "sleep"]
             ELSE /\ counted => hunter.hunts < MaxHunts
                  /\ \E target \in unhunted :
                       hunter' = [CreditCheck(hunter) EXCEPT
                                    !.at = "hunt", !.target = target,
                                    !.hunts = IF counted THEN @ + 1 ELSE @]
  /\ UNCHANGED << huntVars, factory, arena, tribunal, shared, maxDebateRounds,
                  minted >>

FetchReturn == FetchStep(TRUE)

\* orchestrator.hunt(target) settles.  Resolved: the cost estimated from the
\* returned logs is added to totalCost and reported as creditsUsed, the
\* results are processed, the program is marked hunted; then sleep.  Rejected:
\* the catch block logs and sleeps.
HuntReturn ==
  /\ hunter.at = "hunt"
  /\ \/ hunter' = [hunter EXCEPT !.at = "sleep"]
     \/ \E result \in HuntOutcomes :
          LET totalCost == hunter.totalCost + EstimateCost(result.logs)
              h == [hunter EXCEPT
                      !.totalCost = totalCost,
                      !.creditsUsed = totalCost,
                      !.spent = @ + Price(result.inputTokens, result.outputTokens)]
          IN hunter' = [CreditCheck(h) EXCEPT
                          !.huntedPrograms = @ \cup { hunter.target },
                          !.at = "sleep"]
  /\ UNCHANGED << huntVars, factory, arena, tribunal, shared, maxDebateRounds,
                  minted >>

\* A sleep ends: back to the head of the loop.
SleepDone ==
  /\ hunter.at = "sleep"
  /\ hunter' = LoopHead(hunter)
  /\ UNCHANGED << huntVars, factory, arena, tribunal, shared, maxDebateRounds,
                  minted >>

(***************************************************************************)
(* The ids parallelAnalysis gives to its findings (orchestrator.ts:293):   *)
(* the expert's name, Date.now(), and seven base-36 digits of              *)
(* Math.random().                                                          *)
(***************************************************************************)
MaxClock == 1       \* milliseconds the clock can advance during the stage
MaxRandom == 3      \* Math.random() returns one of 0..MaxRandom
MaxMinted == 3      \* findings pushed during the stage

\* Math.random().toString(36).slice(2, 9): the leading digits of x; what
\* follows them is cut off, so that neighbouring values share a suffix.
Suffix(x) == x \div 2

\* `${expertDef.name}-${Date.now()}-${Math.random().toString(36).slice(2, 9)}`
MintId(name, now, x) == [by |-> name, at |-> now, suffix |-> Suffix(x)]

\* No finding pushed yet, the clock at the start of the stage.
MintedInit == [now |-> 0, ids |-> << >>]

\* A millisecond passes.
ClockTick ==
  /\ minted.now < MaxClock
  /\ minted' = [minted EXCEPT !.now = @ + 1]
  /\ UNCHANGED << huntVars, factory, arena, tribunal, hunter, shared, maxDebateRounds >>

\* The closure of expert `name` pushes a finding; Math.random() returns x.
PushFinding(name, x) ==
  /\ Len(minted.ids) < MaxMinted
  /\ minted' = [minted EXCEPT !.ids = Append(@, MintId(name, minted.now, x))]
  /\ UNCHANGED << huntVars, factory, arena, tribunal, hunter, shared, maxDebateRounds >>

(***************************************************************************)
(* Two calls of hunt() on one SwarmOrchestrator.  Each builds its own      *)
(* PipelineState object, but the stage functions reach it through the      *)
(* field this.state, and their agents through the map this.agents.  What   *)
(* is kept of a state object is who wrote each part of it.  Every bounty   *)
(* has one contract, the spawner recommends one expert, and the Pope       *)
(* validates nothing, so that a run ends after its synthesis; no call      *)
(* fails.                                                                  *)
(***************************************************************************)
MaxRuns == 2

\* The calls of hunt(); run r hunts bounty r, whose one contract is r.
Runs == 1..MaxRuns

\* initializeState(bounty): the object the call hunt(bounty) creates.
InitializeState(bounty) ==
  [bounty |-> bounty, contracts |-> { bounty }, spawnedExperts |-> { },
   findings |-> { }, debates |-> { }, logs |-> { }]

\* A run that has not been called.
NotCalled ==
  [at |-> "idle", experts |-> { }, contracts |-> { }, pending |-> { }, found |-> { },
   used |-> { }, returned |-> 0]

\* The orchestrator as constructed: this.state = null (0), this.agents empty
\* (no owner, 0, under any name).
SharedInit ==
  [state |-> 0,
   objects |-> [o \in Runs |-> InitializeState(0)],
   agents |-> [n \in OracleNames \cup { "ExpertSpawner", "ThePope" } |-> 0],
   run |-> [r \in Runs |-> NotCalled]]

\* this.log(...) by run r: an entry in the logs of the object this.state names.
SharedLog(s, r) == [s EXCEPT !.objects[s.state].logs = @ \cup { r }]

\* hunt(bounty r) up to the spawner's call for the first contract.
SharedHunt(r) ==
  /\ shared.run[r].at = "idle"
  /\ LET s == [shared EXCEPT !.state = r, !.objects[r] = InitializeState(r),
                             !.agents["ExpertSpawner"] = r]
     IN shared' = [SharedLog(s, r) EXCEPT
                     !.run[r].at = "spawn",
                     !.run[r].contracts = s.objects[r].contracts,
                     !.run[r].used = { r }]
  /\ UNCHANGED << huntVars, factory, arena, tribunal, hunter, maxDebateRounds,
                  minted >>

\* The spawner answers run r with one expert `name`: the expert is created,
\* set in this.agents and pushed onto this.state.spawnedExperts; the stage ends
\* and parallelAnalysis reads the experts and contracts of this.state and
\* starts one closure per expert, each getting its agent from this.agents.
SharedSpawnReturn(r, name) ==
  /\ shared.run[r].at = "spawn"
  /\ LET s == [SharedLog(shared, r) EXCEPT
                 !.agents[name] = r,
                 !.objects[shared.state].spawnedExperts =
                    @ \cup { [name |-> name, by |-> r] }]
         experts == s.objects[s.state].spawnedExperts
     IN shared' = [s EXCEPT
                     !.run[r].at = "analysis",
                     !.run[r].experts = experts,
                     !.run[r].contracts = s.objects[s.state].contracts,
                     !.run[r].pending = experts,
                     !.run[r].used = @ \cup { s.agents[e.name] : e \in experts }]
  /\ UNCHANGED << huntVars, factory, arena, tribunal, hunter, maxDebateRounds,
                  minted >>

\* The agent the presentation of a finding is asked of: this.agents.get(discoveredBy).
Presenters(s, fs) == { s.agents[f.discoveredBy] : f \in fs }

\* An analysis closure of run r gets its answer (n findings per contract).
\* With the last one, this.state.findings is assigned, and adversarialDebate
\* reads it back: none, and the Pope is called; some, and the debate begins.
SharedAnalysisReturn(r, e, n) ==
  /\ shared.run[r].at = "analysis"
  /\ e \in shared.run[r].pending
  /\ LET found == shared.run[r].found
                  \cup { [discoveredBy |-> e.name, by |-> r, contract |-> c] :
                           c \in IF n = 0 THEN { } ELSE shared.run[r].contracts }
         pending == shared.run[r].pending \ { e }
         s == SharedLog([shared EXCEPT !.run[r].found = found,
                                       !.run[r].pending = pending], r)
     IN IF pending # { }
          THEN shared' = s
          ELSE LET t == [s EXCEPT !.objects[s.state].findings = found]
                   fs == t.objects[t.state].findings
               IN shared' =
                    IF fs = { }
                      THEN [t EXCEPT !.run[r].at = "synthesis",
                                     !.agents["ThePope"] = r]
                      ELSE [t EXCEPT !.run[r].at = "debate",
                                     !.run[r].used = @ \cup Presenters(t, fs)]
  /\ UNCHANGED << huntVars, factory, arena, tribunal, hunter, maxDebateRounds,
                  minted >>

\* The debate of run r ends: its session is pushed onto this.state.debates,
\* and the Pope is called.
SharedDebateReturn(r) ==
  /\ shared.run[r].at = "debate"
  /\ shared' = [SharedLog(shared, r) EXCEPT
                  !.objects[shared.state].debates = @ \cup { r },
                  !.agents["ThePope"] = r,
                  !.run[r].at = "synthesis"]
  /\ UNCHANGED << huntVars, factory, arena, tribunal, hunter, maxDebateRounds,
                  minted >>

\* The Pope answers run r: 'Pipeline completed' is logged and hunt() returns
\* this.state.
SharedSynthesisReturn(r) ==
  /\ shared.run[r].at = "synthesis"
  /\ shared' = [SharedLog(shared, r) EXCEPT
                  !.run[r].at = "returned",
                  !.run[r].returned = shared.state]
  /\ UNCHANGED << huntVars, factory, arena, tribunal, hunter, maxDebateRounds,
                  minted >>

\* A SwarmOrchestrator constructed with maxConcurrentAgents = K, before hunt()
\* is called on a bounty whose number of contracts is drawn from C.
HuntIdle(C) ==
  /\ K \in 1..MaxK
  /\ contracts \in C
  /\ pc = "idle"
  /\ currentStage = "none"
  /\ logs = << >>
  /\ spawnIdx = 0
  /\ spawnedExperts = << >>
  /\ agents = { }
  /\ calls = { }
  /\ limitQueue = << >>
  /\ limitActive = 0
  /\ tasks = << >>
  /\ findings = << >>
  /\ debate = [prioritized |-> << >>, debating |-> << >>, round |-> 0, from |-> 0,
               sess |-> << >>, pushed |-> FALSE]
  /\ synthesis = [done |-> FALSE, validatedVulnerabilities |-> << >>,
                  rejectedVulnerabilities |-> << >>]
  /\ forge = [idx |-> 0, got |-> { }]
  /\ exploits = << >>
  /\ votes = [idx |-> 0, got |-> NoVotes]
  /\ verificationResults = << >>
  /\ faults = 0
  /\ history = [parseFailed |-> { }, spawnedFor |-> << >>, issued |-> { },
                failedPairs |-> { }, returned |-> { }, judgeFailed |-> { },
                pope |-> << >>, conceded |-> { }]
  /\ factory = FactoryInit

\* No tribunal constructed, no hunter started, no second run.
ComponentsIdle ==
  /\ tribunal = TribunalInit
  /\ hunter = HunterInit
  /\ shared = SharedInit
  /\ minted = MintedInit

\* The same, in a swarm with createSwarm's default number of debate rounds.
RestIdle == ComponentsIdle /\ maxDebateRounds = 5

\* The same with a DebateArena that has not been used.
InitHunt(C) == HuntIdle(C) /\ arena = ArenaInit /\ RestIdle

\* hunt() on a bounty with at most one contract.
Init == InitHunt({ 0, 1 })

Next ==
  \/ Hunt
  \/ SpawnExpertsBegin
  \/ SpawnOracleReturn(SpawnResponses)
  \/ ParallelAnalysisBegin
  \/ \E e \in 1..Len(tasks) : AnalysisOracleReturn(e)
  \/ ParallelAnalysisJoin
  \/ AdversarialDebateBegin
  \/ \E call \in calls : DebateOracleReturn(call)
  \/ AdversarialDebateJoin
  \/ SynthesizeBegin
  \/ SynthesisOracleReturn
  \/ ForgeExploitsBegin
  \/ \E a \in 1..Len(Smiths) : ForgeSmithReturn(a)
  \/ ForgeMasterReturn
  \/ VerifyBegin
  \/ \E v \in 1..Len(Verifiers) : VerifierReturn(v)

Spec == Init /\ [][Next]_vars

\* Expert spawning and parallel analysis of a bounty with up to two contracts.
InitAnalysis == InitHunt({ 0, 1, 2 })

NextAnalysis ==
  \/ Hunt
  \/ SpawnExpertsBegin
  \/ SpawnOracleReturn(SpawnResponses)
  \/ ParallelAnalysisBegin
  \/ \E e \in 1..Len(tasks) : AnalysisOracleReturn(e)
  \/ ParallelAnalysisJoin

SpecAnalysis == InitAnalysis /\ [][NextAnalysis]_vars

\* An ExpertFactory used on its own: calls of spawnExpert that may overlap,
\* clearExperts, and analyzeContract.
InitFactory == InitHunt({ 0 }) /\ K = 1

NextFactory ==
  \/ \E definition \in ExpertDefinitions, address \in Addresses :
       SpawnExpert(definition, address)
  \/ \E p \in 1..Len(factory.procs) : KnowledgeLoaded(p)
  \/ ClearExperts
  \/ AnalyzeContract
  \/ AnalyzeContractReturn

SpecFactory == InitFactory /\ [][NextFactory]_vars

(***************************************************************************)
(* hunt() from the end of parallelAnalysis on, for findings lists the      *)
(* analysis oracle can return: one contract, one spawned expert whose one  *)
(* call returned the whole list.                                           *)
(***************************************************************************)
\* state.logs when parallelAnalysis has completed for one contract and one expert.
LogsAfterAnalysis ==
  << LogEntry("reconnaissance", "Pipeline started") >>
  \o StageStarted("reconnaissance")
  \o << LogEntry("reconnaissance", "Validating contracts") >>
  \o StageCompleted("reconnaissance")
  \o StageStarted("expert-spawning")
  \o << LogEntry("expert-spawning", "Analyzing contract"),
        LogEntry("expert-spawning", "Analysis complete"),
        LogEntry("expert-spawning", "Expert spawned"),
        LogEntry("expert-spawning", "Spawning complete") >>
  \o StageCompleted("expert-spawning")
  \o StageStarted("parallel-analysis")
  \o << LogEntry("parallel-analysis", "Starting analysis"),
        LogEntry("parallel-analysis", "analyzing"),
        LogEntry("parallel-analysis", "Analysis complete") >>
  \o StageCompleted("parallel-analysis")

\* hunt() about to enter adversarialDebate with state.findings drawn from F.
InitDebate(F) ==
  /\ K \in 1..MaxK
  /\ contracts = 1
  /\ pc = "debate-begin"
  /\ currentStage = "parallel-analysis"
  /\ logs = LogsAfterAnalysis
  /\ spawnIdx = 1
  /\ spawnedExperts = << "ReentrancyExpert" >>
  /\ agents = { "ExpertSpawner", "ReentrancyExpert" }
  /\ calls = { }
  /\ limitQueue = << >>
  /\ limitActive = 0
  /\ findings \in F
  /\ tasks = << [contract |-> 1, st |-> "done", found |-> findings] >>
  /\ debate = [prioritized |-> << >>, debating |-> << >>, round |-> 0, from |-> 0,
               sess |-> << >>, pushed |-> FALSE]
  /\ synthesis = [done |-> FALSE, validatedVulnerabilities |-> << >>,
                  rejectedVulnerabilities |-> << >>]
  /\ forge = [idx |-> 0, got |-> { }]
  /\ exploits = << >>
  /\ votes = [idx |-> 0, got |-> NoVotes]
  /\ verificationResults = << >>
  /\ faults = 0
  /\ history = [parseFailed |-> { }, spawnedFor |-> << << "ReentrancyExpert" >> >>,
                issued |-> { << 1, 1 >> }, failedPairs |-> { },
                returned |-> { [task |-> 1, contract |-> 1, n |-> Len(findings)] },
                judgeFailed |-> { }, pope |-> << >>, conceded |-> { }]
  /\ factory = FactoryInit
  /\ arena = ArenaInit
  /\ RestIdle

\* The prioritisation at the head of adversarialDebate, for lists of up to
\* MaxList findings.
InitPrioritize == InitDebate(FindingLists(0, MaxList))

NextPrioritize == AdversarialDebateBegin

SpecPrioritize == InitPrioritize /\ [][NextPrioritize]_vars

\* The debate and the synthesis for lists longer than the cutoff.
InitCutoff ==
  InitDebate({ ReportedFindings(ratings, n) :
                 n \in (MAX_FINDINGS_TO_DEBATE + 1)..MaxList,
                 ratings \in { Catalogue, Reverse(Catalogue) } })

NextCutoff ==
  \/ AdversarialDebateBegin
  \/ \E call \in calls : DebateOracleReturn(call)
  \/ AdversarialDebateJoin
  \/ SynthesizeBegin
  \/ SynthesisAnswered(SingleVerdicts(findings))

SpecCutoff == InitCutoff /\ [][NextCutoff]_vars

\* The debate and the synthesis for short lists, with defenders that may
\* concede and a Pope whose lists come in any order.
InitRounds == InitDebate({ ReportedFindings(Catalogue, n) : n \in 0..MaxFindings })

NextRounds ==
  \/ AdversarialDebateBegin
  \/ \E call \in calls : DebateOracleReplies(call)
  \/ AdversarialDebateJoin
  \/ SynthesizeBegin
  \/ SynthesisAnswered(OrderedVerdicts(findings))

SpecRounds == InitRounds /\ [][NextRounds]_vars

\* The ratings of the catalogue under one title: what the analysis oracle
\* returns when it reports the same weakness several times.
SameTitle == [k \in 1..Len(Catalogue) |-> [Catalogue[k] EXCEPT !.title = Catalogue[1].title]]

\* The debate and the synthesis for short lists of findings that share their
\* title and differ in id and rating.
InitTitles == InitDebate({ ReportedFindings(SameTitle, n) : n \in 0..MaxFindings })

SpecTitles == InitTitles /\ [][NextRounds]_vars

\* A DebateArena with the default team sizes.
InitArena == InitHunt({ 0 }) /\ K = 1

NextArena ==
  \/ \E n \in 0..MaxFindings, specialists \in SUBSET Range(ArenaExperts),
        maxRounds \in MaxRoundsConfigs :
       Debate(ArenaFindings(n), specialists, maxRounds)
  \/ ArenaOracleReturn

SpecArena == InitArena /\ [][NextArena]_vars

\* Sessions as debate() returns them, each finding validated or rejected.  The
\* rounds only feed the Pope's prompt and are left empty.
ReturnedSessions ==
  UNION { { CompileResults([ArenaInit EXCEPT
                              !.st = "debating", !.round = 5,
                              !.findings = [i \in 1..n |->
                                              [ArenaFindings(n)[i] EXCEPT
                                                 !.status = "debating"]],
                              !.alive = A]) : A \in SUBSET (1..n) } :
          n \in 0..MaxFindings }

\* ThePope.synthesize on one returned session.
InitPope ==
  /\ HuntIdle({ 0 })
  /\ K = 1
  /\ arena \in ReturnedSessions
  /\ RestIdle

NextPope ==
  \/ PopeSynthesize
  \/ PopeOracleReturn

SpecPope == InitPope /\ [][NextPope]_vars

\* A VerificationTribunal built from every partial configuration, verifying
\* one exploit after another.
InitTribunal == InitHunt({ 0 }) /\ K = 1

NextTribunal ==
  \/ \E config \in PartialTribunalConfigs : NewTribunal(config)
  \/ TribunalVerify
  \/ \E i \in 1..MaxVerifiers, vote \in { "pass", "fail", "threw" } :
       RunVerifierReturn(i, vote)

SpecTribunal == InitTribunal /\ [][NextTribunal]_vars

\* The end-to-end scenario: the spawner recommends two different specialists.
TwoSpecialists ==
  UNION { { [kind |-> "json", experts |-> << a, b >>] : b \in OracleNames \ { a } } :
            a \in OracleNames }

\* The Pope's answer validates both findings by id, in either order.
BothValidated(fs) ==
  { [kind |-> "json", validated |-> << Echo(fs[a]), Echo(fs[3 - a]) >>, rejected |-> { }] :
      a \in 1..2 }

\* hunt() on one contract with well-behaved oracles: two specialists, one
\* finding each, defenders that never concede, both findings validated, every
\* smith and the Forge Master answering, every judge voting pass.
InitScenario == InitHunt({ 1 })

NextScenario ==
  \/ Hunt
  \/ SpawnExpertsBegin
  \/ SpawnOracleReturn(TwoSpecialists)
  \/ ParallelAnalysisBegin
  \/ \E e \in 1..Len(tasks) :
       AnalysisOracleReturn(e) /\ faults' = faults /\ Len(tasks'[e].found) = 1
  \/ ParallelAnalysisJoin
  \/ AdversarialDebateBegin
  \/ \E call \in calls :
       DebateOracleReplies(call) /\ faults' = faults /\ history'.conceded = { }
  \/ AdversarialDebateJoin
  \/ SynthesizeBegin
  \/ SynthesisAnswered(BothValidated(findings))
  \/ ForgeExploitsBegin
  \/ \E a \in 1..Len(Smiths) : ForgeSmithReturn(a) /\ faults' = faults
  \/ ForgeMasterReturn /\ faults' = faults
  \/ VerifyBegin
  \/ \E v \in 1..Len(Verifiers) :
       /\ VerifierReturn(v)
       /\ faults' = faults
       /\ IF Len(verificationResults') > Len(verificationResults)
            THEN verificationResults'[Len(verificationResults')].votes[v] = "pass"
            ELSE votes'.got[v] = "pass"

SpecScenario == InitScenario /\ [][NextScenario]_vars

\* The two tribunals side by side: a VerificationTribunal of any configuration,
\* and the verification stage of hunt() in the scenario above with judges that
\* vote either way.
NextVerdicts ==
  \/ /\ pc = "idle"
     /\ NextTribunal
  \/ /\ tribunal.st = "none"
     /\ \/ Hunt
        \/ SpawnExpertsBegin
        \/ SpawnOracleReturn(TwoSpecialists)
        \/ ParallelAnalysisBegin
        \/ \E e \in 1..Len(tasks) :
             AnalysisOracleReturn(e) /\ faults' = faults /\ Len(tasks'[e].found) = 1
        \/ ParallelAnalysisJoin
        \/ AdversarialDebateBegin
        \/ \E call \in calls :
             DebateOracleReplies(call) /\ faults' = faults /\ history'.conceded = { }
        \/ AdversarialDebateJoin
        \/ SynthesizeBegin
        \/ SynthesisAnswered(BothValidated(findings))
        \/ ForgeExploitsBegin
        \/ \E a \in 1..Len(Smiths) : ForgeSmithReturn(a) /\ faults' = faults
        \/ ForgeMasterReturn /\ faults' = faults
        \/ VerifyBegin
        \/ \E v \in 1..Len(Verifiers) : VerifierReturn(v) /\ faults' = faults

SpecVerdicts == InitScenario /\ [][NextVerdicts]_vars

\* The same scenario in a swarm created as the CLI does for --no-debate:
\* createSwarm({ maxConcurrentAgents: 5, maxDebateRounds: options.debate ? 5 : 0 }).
InitNoDebate ==
  /\ HuntIdle({ 1 })
  /\ arena = ArenaInit
  /\ ComponentsIdle
  /\ maxDebateRounds = 0

SpecNoDebate == InitNoDebate /\ [][NextScenario]_vars

\* The two debates side by side: the debate stage of hunt() over a list of two
\* batches, and a DebateArena used on its own, outside a hunt.
InitSequence ==
  \/ InitDebate({ ReportedFindings(Catalogue, BATCH_SIZE + 1) })
  \/ InitArena

NextSequence ==
  \/ AdversarialDebateBegin
  \/ \E call \in calls : DebateOracleReturn(call)
  \/ AdversarialDebateJoin
  \/ pc = "idle" /\ NextArena

SpecSequence == InitSequence /\ [][NextSequence]_vars

\* The dashboard and its hunter, for every credit limit.
InitHunter ==
  /\ HuntIdle({ 0 })
  /\ K = 1
  /\ arena = ArenaInit
  /\ tribunal = TribunalInit
  /\ shared = SharedInit
  /\ maxDebateRounds = 5
  /\ minted = MintedInit
  /\ hunter \in { Dashboard(creditLimit) : creditLimit \in 1..MaxCredit }

NextHunter ==
  \/ ApiStart
  \/ ApiStop
  \/ ApiPause
  \/ ApiResume
  \/ FetchReturn
  \/ HuntReturn
  \/ SleepDone

SpecHunter == InitHunter /\ [][NextHunter]_vars

\* A hunter that is started and left running: every fetch returns the same
\* list, all of Programs, with the same scores; a hunt fails or completes
\* (consuming no tokens, the hunts not being counted, so that the loop can go
\* round for ever).  The loop's steps are taken as long as it runs.
NextStarve ==
  \/ ApiStart
  \/ /\ FetchStep(FALSE)
     /\ LET unhunted == Programs \ hunter.huntedPrograms
        IN IF unhunted = { }
             THEN hunter'.at = "sleep" /\ hunter'.huntedPrograms = { }
             ELSE hunter'.at = "hunt" /\ hunter'.target = Top(unhunted)
  \/ HuntReturn /\ hunter'.spent = hunter.spent
  \/ SleepDone

SpecStarve == InitHunter /\ [][NextStarve]_vars /\ WF_vars(NextStarve)

\* The ids of the findings of one parallel-analysis stage, the two experts'
\* closures pushing in any order.
InitIds == InitHunt({ 0 }) /\ K = 1

NextIds ==
  \/ ClockTick
  \/ \E name \in Range(ArenaExperts), x \in 0..MaxRandom : PushFinding(name, x)

SpecIds == InitIds /\ [][NextIds]_vars

\* Two calls of hunt() on one orchestrator, in any order and overlap.
InitShared == InitHunt({ 0 }) /\ K = 1

NextShared ==
  \/ \E r \in Runs : SharedHunt(r)
  \/ \E r \in Runs, name \in OracleNames : SharedSpawnReturn(r, name)
  \/ \E r \in Runs, name \in OracleNames, by \in Runs, n \in 0..1 :
       SharedAnalysisReturn(r, [name |-> name, by |-> by], n)
  \/ \E r \in Runs : SharedDebateReturn(r)
  \/ \E r \in Runs : SharedSynthesisReturn(r)

SpecShared == InitShared /\ [][NextShared]_vars


(***************************************************************************)
(* What state.logs records about the stages.                               *)
(***************************************************************************)
Logged(entry) == \E i \in 1..Len(logs) : logs[i] = entry

StageStartedIn(stage) == Logged(LogEntry(stage, "Stage started"))

StageCompletedIn(stage) == Logged(LogEntry(stage, "Stage completed"))

FailedIn(stage) == Logged(LogEntry(stage, "Pipeline failed"))

\* hunt() has returned or thrown.
Ended == pc \in { "done", "failed" }

(***************************************************************************)
(* Properties.                                                             *)
(***************************************************************************)

\* C1: in any run of hunt() with maxConcurrentAgents = K, the number of oracle
\* calls in flight never exceeds K, in whichever stage they were issued.
C1_CallsWithinLimit == Cardinality(calls) <= K

\* C2: the stages run strictly in pipeline order, and a stage starts only when
\* no oracle call of the stage before it is still in flight.
C2_StagesInOrder ==
  [][currentStage' # currentStage =>
       /\ calls = { }
       /\ StageIndex(currentStage') = StageIndex(currentStage) + 1]_vars

\* C2 (case reached): the seventh stage is running with verifier calls in flight.
C2_Witness == currentStage = "verification" /\ calls # { } /\ pc = "verify"

C4_ReturnsSubmission == pc = "done" => currentStage = "submission"

\* Number of entries of the finding list fs created by task e for contract c.
FoundFor(fs, e, c) ==
  Cardinality({ k \in 1..Len(fs) : fs[k].id.task = e /\ fs[k].id.contract = c })

\* C5: in parallel-analysis a failed (specialist, contract) call contributes no
\* finding; every other pair's call is still issued and its findings are in
\* state.findings when the stage ends; the stage does not abort the run.
C5_FailedCallIsolated ==
  /\ \A pr \in history.failedPairs : FoundFor(tasks[pr[1]].found, pr[1], pr[2]) = 0
  /\ pc = "debate-begin" =>
       /\ history.issued = (1..Len(spawnedExperts)) \X (1..contracts)
       /\ \A r \in history.returned : FoundFor(findings, r.task, r.contract) = r.n
       /\ StageCompletedIn("parallel-analysis")
  /\ ~FailedIn("parallel-analysis")

\* C5 (case reached): the stage has ended after one call failed and another
\* returned findings.
C5_Witness ==
  /\ pc = "debate-begin"
  /\ history.failedPairs # { }
  /\ \E r \in history.returned : r.n > 0

\* C6: a verifier's failed oracle call is caught where it was made and counts
\* as a vote that is not a pass: the verification result is still produced and
\* the run is not aborted.
C6_JudgeFailureCaught ==
  history.judgeFailed # { } => ~FailedIn("verification") /\ pc # "failed"

\* C7: when the expert-spawner's answer for a contract cannot be parsed, the
\* fixed default set of three specialists is spawned for it and the stage goes
\* on; the run is not aborted.
C7_DefaultExpertsOnParseError ==
  /\ \A c \in history.parseFailed :
       /\ history.spawnedFor[c] =
            << "ReentrancyExpert", "AccessControlExpert", "LogicErrorExpert" >>
       /\ { "ReentrancyExpert", "AccessControlExpert", "LogicErrorExpert" } \subseteq agents
  /\ ~FailedIn("expert-spawning")
  /\ pc # "failed"

\* C7 (case reached): an answer could not be parsed and the run is in the next
\* stage, analysing with the default specialists.
C7_Witness ==
  /\ history.parseFailed # { }
  /\ pc = "analysis"
  /\ Len(spawnedExperts) >= 3

\* C8: ExpertFactory.analyzeContract does not raise when the oracle's answer is
\* malformed or cannot be parsed: it returns an analysis whose expertsToSpawn is
\* a non-empty default set.
C8_AnalyzeContractNeverRaises ==
  (factory.malformed /\ factory.analysis.st \in { "returned", "raised" }) =>
    factory.analysis.st = "returned" /\ factory.analysis.expertsToSpawn # << >>

\* C9: calls of ExpertFactory.spawnExpert for the same (name, address) return
\* the same agent, also when they overlap, as long as clearExperts() is not
\* called.
C9_SpawnExpertIdempotent ==
  \A p, q \in 1..Len(factory.procs) :
    LET P == factory.procs[p]
        Q == factory.procs[q]
    IN (/\ P.st = "returned" /\ Q.st = "returned"
        /\ P.key = Q.key
        /\ P.epoch = Q.epoch /\ P.until = P.epoch /\ Q.until = Q.epoch)
       => P.agent = Q.agent

\* C10: parallel-analysis issues exactly one analysis call per (specialist
\* name, contract) pair, also when there are several contracts and a specialist
\* of the same name was recommended for more than one of them.
C10_OneCallPerPair ==
  pc = "debate-begin" =>
    \A name \in Range(spawnedExperts), c \in 1..contracts :
      Cardinality({ e \in 1..Len(spawnedExperts) :
                      spawnedExperts[e] = name /\ << e, c >> \in history.issued }) = 1

\* C11: no agent ever has two of its own oracle calls in flight at once: the
\* calls to one specialist, attacker, defender or advocate are serialized.
C11_OneCallPerAgent ==
  \A c1, c2 \in calls : c1.agent = c2.agent => c1 = c2

\* C17: once the debate rounds are over, every debated finding's own
\* debateHistory is the sequence of the session's entries that target it, the
\* `present` entry included.
C17_HistoryMatchesSession ==
  pc = "synthesis-begin" =>
    \A i \in Range(debate.prioritized) : findings[i].debateHistory = debate.sess[i]

\* No two findings of fs have the same score.
DistinctScores(fs) ==
  \A i, j \in 1..Len(fs) : Score(fs[i]) = Score(fs[j]) => i = j

\* C12: for a list of n findings with pairwise distinct scores, the findings that
\* enter the debate are exactly the min(15, n) findings with the highest scores:
\* there are min(15, n) of them and each outscores every finding left out.
C12_TopScoresEnterDebate ==
  (debate.round > 0 /\ DistinctScores(findings)) =>
    LET S == Range(debate.prioritized)
    IN /\ Cardinality(S) = Min(MAX_FINDINGS_TO_DEBATE, Len(findings))
       /\ Len(debate.prioritized) = Cardinality(S)
       /\ \A i \in S, j \in (1..Len(findings)) \ S :
            Score(findings[i]) > Score(findings[j])

\* The cutoff has dropped findings, and one that was reported among the first
\* fifteen is among them.
C12_Witness ==
  /\ debate.round > 0
  /\ DistinctScores(findings)
  /\ Len(findings) > MAX_FINDINGS_TO_DEBATE
  /\ \E i \in 1..MAX_FINDINGS_TO_DEBATE : i \notin Range(debate.prioritized)

\* C13: a finding outside the debate cutoff keeps status `proposed` from the
\* prioritisation until hunt() returns, whatever the synthesis oracle answers.
C13_UndebatedStaysProposed ==
  debate.round > 0 =>
    \A i \in (1..Len(findings)) \ Range(debate.prioritized) :
      findings[i].status = "proposed"

\* C16: in hunt()'s debate stage a finding whose defender conceded in the
\* DEFEND round is `rejected` from that reply on and gets no CHALLENGE entry.
C16_ConcededIsRejected ==
  \A i \in history.conceded :
    /\ findings[i].status = "rejected"
    /\ \A k \in 1..Len(debate.sess[i]) : debate.sess[i][k].action # "challenge"

\* The Pope's answer the synthesis of this run has worked through.
PopeAnswer == history.pope[1]

Resolved == synthesis.done /\ history.pope # << >>

\* C18: when the validated list holds an entry with a finding's id, the severity
\* and confidence synthesis writes to the finding are that entry's, wherever the
\* entry stands in the list; a title match counts only when no entry has the id.
C18_IdMatchFirst ==
  Resolved =>
    \A i \in 1..Len(findings), k \in 1..Len(PopeAnswer.validated) :
      PopeAnswer.validated[k].id = findings[i].id =>
        /\ findings[i].severity = PopeAnswer.validated[k].severity
        /\ findings[i].confidence = PopeAnswer.validated[k].confidence

\* Finding f is named in neither list of resp: no validated entry has its id or
\* its title and no rejected entry has its id.
Unmentioned(resp, f) ==
  /\ \A k \in 1..Len(resp.validated) :
       resp.validated[k].id # f.id /\ resp.validated[k].title # f.title
  /\ f.id \notin resp.rejected

\* C19: the synthesis step leaves a finding named in neither list as it was:
\* status, severity and confidence unchanged.
C19_UnmentionedUnchanged ==
  [][(pc = "synthesis" /\ pc' # "synthesis") =>
       \A i \in 1..Len(findings) :
         Unmentioned(history'.pope[1], findings[i]) => findings'[i] = findings[i]]_vars

\* The Pope validated one finding and named the other, which was debated, in
\* neither list.
C19_Witness ==
  /\ Resolved
  /\ PopeAnswer.validated # << >>
  /\ \E i \in 1..Len(findings) :
       Unmentioned(PopeAnswer, findings[i]) /\ findings[i].status = "debating"

\* session.rounds and the entries of the round in progress, in order.
SessionEntries == Flatten(arena.rounds) \o arena.entries

\* How many entries of es have action act and target the finding with this id.
Count(es, act, id) ==
  Cardinality({ k \in 1..Len(es) : es[k].action = act /\ es[k].targetFinding = id })

\* C14: in the session DebateArena.debate returns, every finding it was given
\* has exactly one `present` entry, and each later round holds at most one
\* `attack`, one `defend` and one `challenge` entry for it, whether or not its
\* specialist is among the specialists handed in.
C14_OnePresentEntry ==
  arena.st = "returned" =>
    \A i \in 1..Len(arena.findings) :
      /\ Count(SessionEntries, "present", arena.findings[i].id) = 1
      /\ \A r \in 2..Len(arena.rounds), act \in { "attack", "defend", "challenge" } :
           Count(arena.rounds[r], act, arena.findings[i].id) <= 1

\* Finding i of the arena has received a `concede` entry.
HasConceded(i) == Count(SessionEntries, "concede", arena.findings[i].id) > 0

\* C15: once a finding has a `concede` entry, no round after the defence round
\* speaks about it (no entry, no call in flight), and its status in the
\* returned DebateResult is `rejected`.
C15_ConcessionFinal ==
  \A i \in 1..Len(arena.findings) :
    HasConceded(i) =>
      /\ \A k \in 1..Len(SessionEntries) :
           SessionEntries[k].targetFinding = arena.findings[i].id =>
             SessionEntries[k].round <= 3
      /\ \A c \in Range(arena.call) : c.task = i => c.round <= 3
      /\ arena.st = "returned" => arena.findings[i].status = "rejected"

\* A debate has returned in which one finding was conceded and another went
\* through the challenge and the final round.
C15_Witness ==
  /\ arena.st = "returned"
  /\ \E i, j \in 1..Len(arena.findings) :
       /\ HasConceded(i)
       /\ Count(SessionEntries, "challenge", arena.findings[j].id) = 1
       /\ \E k \in 1..Len(SessionEntries) :
            SessionEntries[k].round = 5 /\ SessionEntries[k].targetFinding = arena.findings[j].id

\* C20: a finding's status never goes back; in particular a finding the debate
\* has rejected is not among the findings the Pope's synthesis returns as
\* validated.
C20_RejectedStaysRejected ==
  arena.st = "synthesized" =>
    \A i \in 1..Len(arena.findings) :
      arena.findings[i].status = "rejected" =>
        \A k \in 1..Len(arena.pope.validated) :
          arena.pope.validated[k].id # arena.findings[i].id

\* The ids the analysis closures gave their findings, in the order of state.findings.
AnalysisIds == [i \in 1..Len(findings) |-> Flatten([e \in 1..Len(tasks) |-> tasks[e].found])[i].id]

\* id is the id of exactly one finding of state.findings, as assigned at analysis.
NamesOneFinding(id) ==
  Cardinality({ i \in 1..Len(findings) : findings[i].id = id /\ AnalysisIds[i] = id }) = 1

ConsensusRule(passCount, passThreshold) ==
  IF passCount >= passThreshold THEN "PASS" ELSE IF passCount = 0 THEN "FAIL" ELSE "SPLIT"

\* C22: for every tribunal configuration and every vector of votes, the
\* consensus of VerificationTribunal.verify is PASS if the number of pass votes
\* is at least passThreshold, otherwise FAIL if it is 0, otherwise SPLIT.
C22_ConsensusFollowsRule ==
  tribunal.result.kind = "result" =>
    tribunal.result.consensus =
      ConsensusRule(PassCount(tribunal.result.votes), tribunal.config.passThreshold)

\* C23: with autoSubmitThreshold left at its default, a result has autoSubmit
\* exactly when every one of the verifierCount judges voted pass.
C23_DefaultAutoSubmitIsUnanimous ==
  (tribunal.result.kind = "result" /\ tribunal.given.autoSubmitThreshold = Undefined) =>
    (tribunal.result.autoSubmit <=>
       PassCount(tribunal.result.votes) = tribunal.config.verifierCount)


\* C24: in the end-to-end scenario hunt() completes, and the state it returns
\* has 2 findings, 2 validated findings in the synthesis, 2 exploits that are
\* verified and 2 verification results with autoSubmit.
C24_EndToEnd ==
  /\ pc # "failed"
  /\ pc # "done" => ENABLED NextScenario
  /\ pc = "done" =>
       /\ Len(findings) = 2
       /\ Len(synthesis.validatedVulnerabilities) = 2
       /\ Len(exploits) = 2
       /\ \A x \in 1..Len(exploits) : exploits[x].verified
       /\ Len(verificationResults) = 2
       /\ \A x \in 1..Len(verificationResults) : verificationResults[x].autoSubmit

\* The scenario has run to the end: two specialists were spawned for the one
\* contract, every round of the debate was held on both findings, and 6 votes
\* were cast.
C24_Witness ==
  /\ pc = "done"
  /\ contracts = 1
  /\ Len(spawnedExperts) = 2
  /\ \A i \in 1..Len(debate.sess) : Len(debate.sess[i]) = 4
  /\ Len(verificationResults) = 2


\* Whether s is an initial part of t.
IsPrefix(s, t) == Len(s) <= Len(t) /\ SubSeq(t, 1, Len(s)) = s

\* Whether the stages of successive entries never move backward.
StagesAscend(l) ==
  \A i \in 1..(Len(l) - 1) : StageIndex(l[i].stage) <= StageIndex(l[i + 1].stage)

\* C25: the log of a run only grows at its end (no entry is removed or moved),
\* and the stages of successive entries never go backward in pipeline order,
\* also while analysis tasks write to it concurrently.
C25_LogAppendOnlyAscending == [][IsPrefix(logs, logs') /\ StagesAscend(logs')]_vars

\* A run completed after two analysis tasks had been in flight together and
\* had each written to the log.
C25_Witness ==
  /\ pc = "done"
  /\ K = 2
  /\ Len(tasks) = 3
  /\ Cardinality({ i \in 1..Len(logs) : logs[i].action = "analyzing" }) = 3
  /\ logs[Len(logs)].stage = "submission"


\* C26: when a stage function throws while stage S is executing, hunt()
\* rejects, the entry 'Pipeline failed' tagged with S is appended as the last
\* entry of the log and stays the last one, and no later stage is started.
C26_FailureEndsRun ==
  [][/\ (pc # "failed" /\ pc' = "failed") =>
          /\ currentStage' = currentStage
          /\ logs' = logs \o << LogEntry(currentStage, "Pipeline failed") >>
     /\ pc = "failed" => (pc' = "failed" /\ currentStage' = currentStage /\ logs' = logs)]_vars

\* The exploit forge failed on one smith's call, and the other smiths' calls
\* have settled since.
C26_Witness ==
  /\ pc = "failed"
  /\ currentStage = "exploit-forge"
  /\ calls = { }
  /\ Cardinality(forge.got) = 2
  /\ logs[Len(logs)] = LogEntry("exploit-forge", "Pipeline failed")


\* C28: in a swarm created with maxDebateRounds = 0 a run of hunt() issues no
\* debate oracle call and produces no debate session and no debate entry.
C28_NoDebate ==
  maxDebateRounds = 0 =>
    /\ \A call \in calls : call.stage # "adversarial-debate"
    /\ ~debate.pushed
    /\ \A i \in 1..Len(debate.sess) : debate.sess[i] = << >>
    /\ \A i \in 1..Len(findings) : findings[i].debateHistory = << >>


\* The calls of the debate stage that are in flight.
DebateCalls == { c \in calls : c.stage = "adversarial-debate" }

\* Whether finding i has its entry of round r.
Answered(i, r) == \E k \in 1..Len(debate.sess[i]) : debate.sess[i][k].round = r

\* C30: rounds are sequential.  In hunt()'s debate stage the calls in flight
\* all belong to one round, and while a call of a round is in flight every
\* finding of the earlier rounds, and of the earlier batches of its round, has
\* been answered.  In DebateArena.debate the call in flight belongs to the
\* round being run, and the rounds before it are closed.
C30_RoundsSequential ==
  /\ \A c \in DebateCalls : \A d \in DebateCalls : c.round = d.round
  /\ \A c \in DebateCalls :
       /\ \A r \in 1..(c.round - 1) :
            \A k \in 1..Len(RoundList(debate, r)) : Answered(RoundList(debate, r)[k], r)
       /\ pc = "debate" =>
            /\ c.round = debate.round
            /\ \A k \in 1..debate.from :
                 Answered(RoundList(debate, c.round)[k], c.round)
  /\ Len(arena.call) <= 1
  /\ arena.call # << >> =>
       /\ arena.call[1].round = arena.round
       /\ Len(arena.rounds) = arena.round - 1
       /\ \A k \in 1..Len(arena.entries) : arena.entries[k].round = arena.round
       /\ \A r \in 1..Len(arena.rounds) :
            \A k \in 1..Len(arena.rounds[r]) : arena.rounds[r][k].round = r

\* The second batch of the third round of hunt()'s debate is in flight, the
\* five findings of the first batch answered.
C30_Witness ==
  /\ pc = "debate"
  /\ debate.round = 3
  /\ debate.from = BATCH_SIZE
  /\ DebateCalls # { }
  /\ \A k \in 1..BATCH_SIZE : Answered(debate.debating[k], 3)

\* C29: once the price of the oracle tokens consumed by the completed hunts
\* has reached the credit limit, the hunter has been told to stop and starts
\* no further hunt.
C29_StopsWhenOutOfCredits ==
  [][hunter.spent >= hunter.creditLimit =>
       (hunter.shouldStop /\ hunter'.hunts = hunter.hunts)]_vars


\* Whether everything in state object o stems from run r, hunting bounty r.
OwnState(o, r) ==
  /\ o.bounty = r
  /\ o.contracts = { r }
  /\ \A e \in o.spawnedExperts : e.by = r
  /\ \A f \in o.findings : f.by = r /\ f.contract = r
  /\ o.debates \subseteq { r }
  /\ o.logs \subseteq { r }

\* C27: two runs of hunt() on one orchestrator do not interact: the state a
\* run returns holds only its own contracts, specialists, findings, debates
\* and log entries, and the run used only agents spawned for it.
C27_RunsDoNotInteract ==
  \A r \in Runs :
    shared.run[r].at = "returned" =>
      /\ OwnState(shared.objects[shared.run[r].returned], r)
      /\ shared.run[r].used \subseteq { r }

\* C31: the synthesis is a partition: no finding is both among the validated
\* and among the rejected findings of the PopeSynthesis that ThePope.synthesize
\* returns, whatever the oracle listed.
C31_SynthesisIsPartition ==
  arena.st = "synthesized" =>
    \A k \in 1..Len(arena.pope.validated) :
      \A r \in arena.pope.rejected : arena.pope.validated[k].id # r.id

\* C32: an entry of the validated list validates at most the finding it names:
\* a finding that synthesis has set to validated is named by the id of some
\* entry, or matches by title an entry whose id is the id of no finding; an
\* entry carrying the id of one finding never validates another finding of the
\* same title.
C32_EntryValidatesOneFinding ==
  Resolved =>
    \A j \in 1..Len(findings) :
      findings[j].status = "validated" =>
        \E k \in 1..Len(PopeAnswer.validated) :
          \/ PopeAnswer.validated[k].id = findings[j].id
          \/ /\ PopeAnswer.validated[k].title = findings[j].title
             /\ \A i \in 1..Len(findings) : findings[i].id # PopeAnswer.validated[k].id

\* C33: a mention that resolves to no finding is dropped: every finding listed
\* in the PopeSynthesis that ThePope.synthesize returns, validated or rejected,
\* is one of the findings of the session that entered synthesis.
C33_StrayMentionDropped ==
  arena.st = "synthesized" =>
    LET entered == { arena.findings[i].id : i \in 1..Len(arena.findings) }
    IN /\ \A k \in 1..Len(arena.pope.validated) : arena.pope.validated[k].id \in entered
       /\ \A r \in arena.pope.rejected : r.id \in entered

\* C34: a session of DebateArena.debate keeps to the round budget: the rounds
\* pushed to the session never number more than config.maxRounds.
C34_RoundsWithinBudget == Len(arena.rounds) <= arena.maxRounds

\* C35: the findings created by the parallel-analysis stage have pairwise
\* different ids, in whatever order the closures push them and also when one
\* expert pushes two findings within one millisecond.
C35_IdsUnique ==
  \A i \in 1..Len(minted.ids), j \in 1..Len(minted.ids) :
    i # j => minted.ids[i] # minted.ids[j]

\* C36: a result with autoSubmit has consensus PASS, for every configuration of
\* a VerificationTribunal and every vector of votes, and for every result the
\* verification stage of hunt() files.
C36_AutoSubmitImpliesPass ==
  /\ (tribunal.result.kind = "result" /\ tribunal.result.autoSubmit) =>
       tribunal.result.consensus = "PASS"
  /\ \A i \in 1..Len(verificationResults) :
       verificationResults[i].autoSubmit => verificationResults[i].consensus = "PASS"

\* A tribunal configured with an autoSubmitThreshold below its passThreshold
\* has granted autoSubmit on fewer pass votes than passThreshold.
C36_Witness ==
  /\ tribunal.result.kind = "result"
  /\ tribunal.result.autoSubmit
  /\ tribunal.config.autoSubmitThreshold < tribunal.config.passThreshold
  /\ PassCount(tribunal.result.votes) < tribunal.config.passThreshold
  /\ \E i \in 1..Len(tribunal.result.votes) : tribunal.result.votes[i] = "fail"

\* C37: once hunt() has rejected, the PipelineState of the run is not modified
\* any more: the calls of the failed batch that are still in flight change no
\* finding (status, debate history), and append no log entry, exploit or
\* verification result when they return.
C37_NoWriteAfterRejection ==
  [][pc = "failed" =>
       /\ findings' = findings
       /\ logs' = logs
       /\ exploits' = exploits
       /\ verificationResults' = verificationResults
       /\ synthesis' = synthesis]_vars

\* C38: whatever requests the dashboard has served, while its status is
\* 'hunting' the hunter is not paused (so that the loop a start request has
\* set going comes to hunt).
C38_HuntingIsNotPaused == hunter.status = "hunting" => ~hunter.paused

\* C40: after stop() the loop starts no new hunt: from the call of stop() until
\* the loop has ended, the number of hunts started does not change (the hunt
\* in progress is finished, then the loop ends with running = false).
C40_NoHuntAfterStop ==
  [][(hunter.running /\ hunter.shouldStop) => hunter'.hunts = hunter.hunts]_vars

\* C39: with a fixed list of bounties and a hunter that keeps running, every
\* bounty of the list is eventually selected as the target of a hunt, also
\* when the hunt of another bounty fails each time it is tried.
C39_EveryBountySelected == \A p \in Programs : <>(hunter.target = p)

====
